---- MODULE Spec2Model ----
(***************************************************************************)
(* Model of the pr-allocation-service repository: the commit DAG engine    *)
(* (code-storage-service), the PR allocation service and the user gateway  *)
(* that sequences approve -> merge -> record-as-merged across the two.     *)
(***************************************************************************)
EXTENDS Integers, Sequences, FiniteSets, TLC

VARIABLES
    teams,            \* table teams of the one database the services share
    commits,          \* table commits: commit id -> row (ids are positions)
    names,            \* table commit_names
    resp,             \* the last response of the commit DAG engine
    users,            \* table users: user_id -> row
    prs,              \* table pull_requests: pull_request_id -> row
    clock,            \* time.Now() of the allocation service
    aresp,            \* the last response of the allocation service
    maxCount,         \* reviewers per PR, fixed at construction (1 or 2)
    repoRootCommits,  \* gateway: "teamID:repoName" -> root commit
    metas,            \* gateway: the PRMetadata values allocated so far
    prMetadata,       \* gateway: key -> index of the PRMetadata it points to
    gresp,            \* the last response of the gateway
    inflight          \* requests between their read and their write: name -> record

svars == <<teams, commits, names, resp>>

avars == <<users, prs, clock, aresp, maxCount, inflight>>

gvars == <<repoRootCommits, metas, prMetadata, gresp>>

vars == <<teams, commits, names, resp, users, prs, clock, aresp, maxCount,
          repoRootCommits, metas, prMetadata, gresp, inflight>>

(***************************************************************************)
(* Bounds and input domains                                                *)
(***************************************************************************)
MaxCommits == 4

MaxRepos == 2

TeamIDs == {"alpha", "beta"}

CommitNames == {"", "main"}

Codes == {"Z0"}

NoCommit == 0

\* ids a request may name: every stored commit and one id that is not stored
KnownIDs == 1..(Len(commits) + 1)

(***************************************************************************)
(* Storage layer (postgres) of the commit DAG engine                       *)
(***************************************************************************)

\* SELECT EXISTS(SELECT 1 FROM teams WHERE id = $1)
TeamExists(t) == t \in teams

\* GetCommit that forgets the root_commit filter of its WHERE clause
M_CommitRowExists(t, r, c) == c \in DOMAIN commits /\ commits[c].team = t

\* a row of table commits with this id, team and root
CommitRowExists(t, r, c) ==
    /\ c \in DOMAIN commits
    /\ commits[c].team = t
    /\ commits[c].root = r

\* WHERE team_id = $1 AND id = $2 AND root_commit = $2
RootCommitExists(t, r) == CommitRowExists(t, r, r)

\* $3 = ANY(parent_commit_ids)
HasParent(x, c) == \E i \in DOMAIN commits[x].parents : commits[x].parents[i] = c

\* IsLeafCommit that finds every commit a leaf
M_IsLeafCommit(t, r, c) == TRUE

\* SELECT NOT EXISTS(... WHERE team_id = $1 AND root_commit = $2 AND $3 = ANY(parent_commit_ids))
IsLeafCommit(t, r, c) ==
    ~ \E x \in DOMAIN commits :
        /\ commits[x].team = t
        /\ commits[x].root = r
        /\ HasParent(x, c)

\* SELECT code FROM commits WHERE id = $1 AND team_id = $2 AND root_commit = $3
GetCommitCode(t, r, c) == IF CommitRowExists(t, r, c) THEN commits[c].code ELSE "none"

\* rows of commit_names for a (team, root, name) key
NameRows(t, r, n) == {row \in names : row.team = t /\ row.root = r /\ row.name = n}

\* rows of commit_names for a commit id
CommitRows(c) == {row \in names : row.commit = c}

\* SELECT commit_id FROM commit_names WHERE team_id = $1 AND root_commit = $2 AND name = $3
GetCommitIDByName(t, r, n) ==
    IF NameRows(t, r, n) = {} THEN NoCommit
    ELSE (CHOOSE row \in NameRows(t, r, n) : TRUE).commit

\* SELECT name FROM commit_names WHERE commit_id = $1
GetCommitName(c) ==
    IF CommitRows(c) = {} THEN ""
    ELSE (CHOOSE row \in CommitRows(c) : TRUE).name

\* commit_names(commit_id UNIQUE, PRIMARY KEY (team_id, root_commit, name))
NameInsertConflict(t, r, c, n) == NameRows(t, r, n) # {} \/ CommitRows(c) # {}

\* SetCommitName that swallows the error of its INSERT
M_SetCommitNameOK(t, r, c, n) == TRUE

\* the INSERT of SetCommitName returns no error
SetCommitNameOK(t, r, c, n) == ~ NameInsertConflict(t, r, c, n)

NameRow(t, r, c, n) == [team |-> t, root |-> r, commit |-> c, name |-> n]

\* uuid.New(): an id no commit has yet
NewCommitID == Len(commits) + 1

\* the result of a storage write: the tables after it, the error and the commit id
Result(cs, ns, e, i) == [commits |-> cs, names |-> ns, err |-> e, id |-> i]

Failed(e) == Result(commits, names, e, NoCommit)

\* the commit row is inserted first; the name row is a second, separate statement
InsertWithName(t, r, row, n) ==
    LET id == NewCommitID
        cs == Append(commits, row)
    IN  IF n = "" THEN Result(cs, names, "OK", id)
        ELSE IF SetCommitNameOK(t, r, id, n)
             THEN Result(cs, names \cup {NameRow(t, r, id, n)}, "OK", id)
             ELSE Result(cs, names, "failed to set commit name", NoCommit)

StorageInitRepository(t, n, code) ==
    LET id == NewCommitID
    IN  InsertWithName(t, id, [team |-> t, root |-> id, parents |-> <<>>, code |-> code], n)

StorageCreateCommit(t, r, p, n, code) ==
    InsertWithName(t, r, [team |-> t, root |-> r, parents |-> <<p>>, code |-> code], n)

\* a merge that stores the code of its second parent
M_StorageMergeCommits(t, r, a, b) ==
    IF ~ CommitRowExists(t, r, a) THEN Failed("COMMIT_NOT_FOUND")
    ELSE Result(Append(commits, [team |-> t, root |-> r, parents |-> <<a, b>>,
                                 code |-> GetCommitCode(t, r, b)]),
                names, "OK", NewCommitID)

StorageMergeCommits(t, r, a, b) ==
    IF ~ CommitRowExists(t, r, a) THEN Failed("COMMIT_NOT_FOUND")
    ELSE Result(Append(commits, [team |-> t, root |-> r, parents |-> <<a, b>>,
                                 code |-> GetCommitCode(t, r, a)]),
                names, "OK", NewCommitID)

(***************************************************************************)
(* Service layer of the commit DAG engine                                  *)
(***************************************************************************)

ServiceInitRepository(t, n, code) ==
    IF ~ TeamExists(t) THEN Failed("TEAM_NOT_FOUND")
    ELSE StorageInitRepository(t, n, code)

\* Push without the check that the parent commit exists
M_ServicePush(t, r, p, n, code) ==
    IF ~ TeamExists(t) THEN Failed("TEAM_NOT_FOUND")
    ELSE IF ~ RootCommitExists(t, r) THEN Failed("ROOT_COMMIT_NOT_FOUND")
    ELSE StorageCreateCommit(t, r, p, n, code)

ServicePush(t, r, p, n, code) ==
    IF ~ TeamExists(t) THEN Failed("TEAM_NOT_FOUND")
    ELSE IF ~ RootCommitExists(t, r) THEN Failed("ROOT_COMMIT_NOT_FOUND")
    ELSE IF ~ CommitRowExists(t, r, p) THEN Failed("INVALID_PARENT")
    ELSE StorageCreateCommit(t, r, p, n, code)

\* Merge that tests only its first commit for being a leaf
M_BothLeaves(t, r, a, b) == IsLeafCommit(t, r, a)

BothLeaves(t, r, a, b) == IsLeafCommit(t, r, a) /\ IsLeafCommit(t, r, b)

ServiceMerge(t, r, a, b) ==
    IF ~ TeamExists(t) THEN Failed("TEAM_NOT_FOUND")
    ELSE IF ~ RootCommitExists(t, r) THEN Failed("ROOT_COMMIT_NOT_FOUND")
    ELSE IF ~ CommitRowExists(t, r, a) THEN Failed("COMMIT_NOT_FOUND")
    ELSE IF ~ CommitRowExists(t, r, b) THEN Failed("COMMIT_NOT_FOUND")
    ELSE IF ~ BothLeaves(t, r, a, b) THEN Failed("COMMIT_NOT_LEAF")
    ELSE StorageMergeCommits(t, r, a, b)

\* a request is served while the commit table has room for its insert and the
\* number of repositories (root commits) stays within MaxRepos
\* Checkout: the code of a commit of a repository, or the error of the lookup
ServiceCheckout(t, r, c) ==
    IF ~ TeamExists(t) THEN [err |-> "TEAM_NOT_FOUND", code |-> "none"]
    ELSE IF ~ RootCommitExists(t, r) THEN [err |-> "ROOT_COMMIT_NOT_FOUND", code |-> "none"]
    ELSE IF ~ CommitRowExists(t, r, c) THEN [err |-> "COMMIT_NOT_FOUND", code |-> "none"]
    ELSE [err |-> "OK", code |-> GetCommitCode(t, r, c)]

\* The sentinel errors of the service, each named by the code it is answered
\* with. No operation returns the sentinel of COMMIT_NAME_EXISTS: a failed name
\* insert is the wrapped database error "failed to set commit name".
SentinelErrors ==
    {"TEAM_NOT_FOUND", "ROOT_COMMIT_NOT_FOUND", "COMMIT_NOT_FOUND",
     "REPOSITORY_ALREADY_INITIALIZED", "INVALID_PARENT", "COMMIT_NOT_LEAF",
     "MERGE_CONFLICT", "INVALID_COMMIT_NAME", "COMMIT_NAME_EXISTS"}

M_MapErrorToCode(e) == IF e = "OK" THEN "OK" ELSE "COMMIT_NAME_EXISTS"

\* errors.Is against each sentinel; anything else is INTERNAL_ERROR.
MapErrorToCode(e) ==
    IF e = "OK" THEN "OK"
    ELSE IF e \in SentinelErrors THEN e
    ELSE "INTERNAL_ERROR"

Apply(op, res) ==
    /\ Len(res.commits) <= MaxCommits
    /\ Cardinality({c \in DOMAIN res.commits : res.commits[c].root = c}) <= MaxRepos
    /\ commits' = res.commits
    /\ names' = res.names
    /\ resp' = [op |-> op, err |-> MapErrorToCode(res.err), id |-> res.id]
    /\ UNCHANGED <<teams, avars, gvars>>

InitRepository(t, n, code) == Apply("InitRepository", ServiceInitRepository(t, n, code))

Push(t, r, p, n, code) == Apply("Push", ServicePush(t, r, p, n, code))

Merge(t, r, a, b) == Apply("Merge", ServiceMerge(t, r, a, b))

(***************************************************************************)
(* PR allocation service                                                   *)
(***************************************************************************)
UserIDs == {"u1", "u2", "u3"}

PRIDs == {"pr-1", "pr-2"}

\* a nil *time.Time
NoTime == 0

\* SELECT ... FROM users WHERE user_id = $1
UserExists(u) == u \in DOMAIN users

\* SELECT EXISTS(SELECT 1 FROM pull_requests WHERE pull_request_id = $1)
PRExists(ps, id) == id \in DOMAIN ps

Min(a, b) == IF a < b THEN a ELSE b

\* candidates that do not leave the author out
M_Candidates(t, authorID) == {u \in DOMAIN users : users[u].team = t /\ users[u].active}

\* the active members of the team other than the author
Candidates(t, authorID) ==
    {u \in DOMAIN users : users[u].team = t /\ users[u].active /\ u # authorID}

\* every order rand.Shuffle can leave the candidates in
Shuffles(C) ==
    {s \in [1..Cardinality(C) -> C] : \A i, j \in 1..Cardinality(C) : i # j => s[i] # s[j]}

\* a selection that does not cut the shuffle to maxCount
M_selectReviewers(t, authorID, k) == Shuffles(Candidates(t, authorID))

\* the reviewer lists selectReviewers can return: the first min(len, maxCount)
\* of a shuffle of the candidates
selectReviewers(t, authorID, k) ==
    LET C == Candidates(t, authorID)
    IN  {SubSeq(s, 1, Min(Cardinality(C), k)) : s \in Shuffles(C)}

AResult(ps, e, id, all) == [prs |-> ps, err |-> e, pr |-> id, allApproved |-> all]

AFailed(ps, e) == AResult(ps, e, "", FALSE)

\* UPDATE pull_requests SET pull_request_name, status, assigned_reviewers,
\* merged_at WHERE pull_request_id = $6
UpdatePR(ps, id, row) == [ps EXCEPT ![id] = [row EXCEPT !.approved = ps[id].approved]]

\* UpdatePR of the primary service, whose pull_requests row has approved_by
PrimaryUpdatePR(ps, id, row) == [ps EXCEPT ![id] = row]

\* INSERT INTO pull_requests ... with status OPEN
StorageCreatePR(ps, id, authorID, reviewers) ==
    [x \in DOMAIN ps \cup {id} |->
        IF x = id
        THEN [author |-> authorID, status |-> "OPEN", reviewers |-> reviewers,
              approved |-> <<>>, mergedAt |-> NoTime]
        ELSE ps[x]]

\* a CreatePR that does not look for the id first
M_ServiceCreatePR(ps, id, authorID, reviewers) ==
    IF ~ UserExists(authorID) THEN AFailed(ps, "NOT_FOUND")
    ELSE IF users[authorID].team = "" THEN AFailed(ps, "NOT_FOUND")
    ELSE AResult(StorageCreatePR(ps, id, authorID, reviewers), "OK", id, FALSE)

ServiceCreatePR(ps, id, authorID, reviewers) ==
    IF PRExists(ps, id) THEN AFailed(ps, "PR_EXISTS")
    ELSE IF ~ UserExists(authorID) THEN AFailed(ps, "NOT_FOUND")
    ELSE IF users[authorID].team = "" THEN AFailed(ps, "NOT_FOUND")
    ELSE AResult(StorageCreatePR(ps, id, authorID, reviewers), "OK", id, FALSE)

IsAssigned(pr, u) == \E i \in DOMAIN pr.reviewers : pr.reviewers[i] = u

HasApproved(pr, u) == \E i \in DOMAIN pr.approved : pr.approved[i] = u

\* a gate that wants at least one reviewer
M_allReviewersApproved(pr) ==
    /\ pr.reviewers # <<>>
    /\ \A i \in DOMAIN pr.reviewers : HasApproved(pr, pr.reviewers[i])

allReviewersApproved(pr) ==
    \A i \in DOMAIN pr.reviewers : HasApproved(pr, pr.reviewers[i])

ServiceApprovePR(ps, id, reviewerID) ==
    IF ~ PRExists(ps, id) THEN AFailed(ps, "NOT_FOUND")
    ELSE IF ps[id].status # "OPEN" THEN AFailed(ps, "PR_NOT_OPEN")
    ELSE IF ~ IsAssigned(ps[id], reviewerID) THEN AFailed(ps, "NOT_ASSIGNED")
    ELSE IF HasApproved(ps[id], reviewerID)
         THEN AResult(ps, "OK", id, allReviewersApproved(ps[id]))
    ELSE LET row == [ps[id] EXCEPT !.approved = Append(@, reviewerID)]
         IN  AResult(PrimaryUpdatePR(ps, id, row), "OK", id, allReviewersApproved(row))

ServiceRejectPR(ps, id, reviewerID) ==
    IF ~ PRExists(ps, id) THEN AFailed(ps, "NOT_FOUND")
    ELSE IF ps[id].status # "OPEN" THEN AFailed(ps, "PR_NOT_OPEN")
    ELSE IF ~ IsAssigned(ps[id], reviewerID) THEN AFailed(ps, "NOT_ASSIGNED")
    ELSE AResult(PrimaryUpdatePR(ps, id, [ps[id] EXCEPT !.status = "REJECTED"]), "OK", id, FALSE)

\* pr.Status = MERGED; if pr.MergedAt == nil { pr.MergedAt = &now }
MarkMerged(row, now) ==
    [row EXCEPT !.status = "MERGED", !.mergedAt = IF @ = NoTime THEN now ELSE @]

\* MergePR of the primary service
ServiceMergePR(ps, id, now) ==
    IF ~ PRExists(ps, id) THEN AFailed(ps, "NOT_FOUND")
    ELSE IF ps[id].status = "MERGED" THEN AResult(ps, "OK", id, FALSE)
    ELSE IF ps[id].status = "REJECTED" THEN AFailed(ps, "PR_REJECTED")
    ELSE IF ~ allReviewersApproved(ps[id]) THEN AFailed(ps, "NOT_ALL_APPROVED")
    ELSE AResult(PrimaryUpdatePR(ps, id, MarkMerged(ps[id], now)), "OK", id, FALSE)

\* a MergePR that merges again what is merged, with a new merged_at
M_AltServiceMergePR(ps, id, now) ==
    IF ~ PRExists(ps, id) THEN AFailed(ps, "NOT_FOUND")
    ELSE AResult(UpdatePR(ps, id, [ps[id] EXCEPT !.status = "MERGED", !.mergedAt = now]),
                 "OK", id, FALSE)

\* MergePR of the alternate profile (the service at the repository root)
AltServiceMergePR(ps, id, now) ==
    IF ~ PRExists(ps, id) THEN AFailed(ps, "NOT_FOUND")
    ELSE IF ps[id].status = "MERGED" THEN AResult(ps, "OK", id, FALSE)
    ELSE AResult(UpdatePR(ps, id, MarkMerged(ps[id], now)), "OK", id, FALSE)

\* the position of the first occurrence of u in the reviewer list
OldIndex(pr, u) == CHOOSE i \in DOMAIN pr.reviewers :
                      pr.reviewers[i] = u /\ \A j \in 1..(i - 1) : pr.reviewers[j] # u

\* the active members of the old reviewer's team that are neither the author nor
\* assigned to the pull request
ReassignCandidates(pr, oldID) ==
    {u \in DOMAIN users : /\ users[u].team = users[oldID].team
                          /\ users[u].active
                          /\ u # pr.author
                          /\ ~ IsAssigned(pr, u)}

\* a reassignment that keeps the old reviewer and appends the new one
M_Replace(pr, oldID, newID) == [pr EXCEPT !.reviewers = Append(@, newID)]

\* pr.AssignedReviewers[oldIndex] = newReviewer.UserID
Replace(pr, oldID, newID) == [pr EXCEPT !.reviewers[OldIndex(pr, oldID)] = newID]

\* a reassignment that, for want of a candidate, takes the old reviewer off
M_AltServiceReassignReviewer(ps, id, oldID, newID) ==
    IF ~ PRExists(ps, id) THEN AFailed(ps, "NOT_FOUND")
    ELSE IF ps[id].status = "MERGED" THEN AFailed(ps, "PR_MERGED")
    ELSE IF ~ IsAssigned(ps[id], oldID) THEN AFailed(ps, "NOT_ASSIGNED")
    ELSE IF ~ UserExists(oldID) THEN AFailed(ps, "NOT_FOUND")
    ELSE IF ReassignCandidates(ps[id], oldID) = {}
         THEN AResult(UpdatePR(ps, id, [ps[id] EXCEPT !.reviewers = <<>>]), "OK", id, FALSE)
    ELSE AResult(UpdatePR(ps, id, Replace(ps[id], oldID, newID)), "OK", id, FALSE)

\* ReassignReviewer of the alternate profile; newID is candidates[rand.Intn(len)]
AltServiceReassignReviewer(ps, id, oldID, newID) ==
    IF ~ PRExists(ps, id) THEN AFailed(ps, "NOT_FOUND")
    ELSE IF ps[id].status = "MERGED" THEN AFailed(ps, "PR_MERGED")
    ELSE IF ~ IsAssigned(ps[id], oldID) THEN AFailed(ps, "NOT_ASSIGNED")
    ELSE IF ~ UserExists(oldID) THEN AFailed(ps, "NOT_FOUND")
    ELSE IF ReassignCandidates(ps[id], oldID) = {} THEN AFailed(ps, "NO_CANDIDATE")
    ELSE AResult(UpdatePR(ps, id, Replace(ps[id], oldID, newID)), "OK", id, FALSE)

\* a reassignment that goes on for a merged pull request
M_ServiceReassignReviewer(ps, id, oldID, newID) ==
    IF ~ PRExists(ps, id) THEN AFailed(ps, "NOT_FOUND")
    ELSE IF ~ IsAssigned(ps[id], oldID) THEN AFailed(ps, "NOT_ASSIGNED")
    ELSE IF ~ UserExists(oldID) THEN AFailed(ps, "NOT_FOUND")
    ELSE IF ReassignCandidates(ps[id], oldID) = {} THEN AFailed(ps, "NO_CANDIDATE")
    ELSE AResult(PrimaryUpdatePR(ps, id, Replace(ps[id], oldID, newID)), "OK", id, FALSE)

\* ReassignReviewer of the primary service; newID is candidates[rand.Intn(len)]
ServiceReassignReviewer(ps, id, oldID, newID) ==
    IF ~ PRExists(ps, id) THEN AFailed(ps, "NOT_FOUND")
    ELSE IF ps[id].status = "MERGED" THEN AFailed(ps, "PR_MERGED")
    ELSE IF ~ IsAssigned(ps[id], oldID) THEN AFailed(ps, "NOT_ASSIGNED")
    ELSE IF ~ UserExists(oldID) THEN AFailed(ps, "NOT_FOUND")
    ELSE IF ReassignCandidates(ps[id], oldID) = {} THEN AFailed(ps, "NO_CANDIDATE")
    ELSE AResult(PrimaryUpdatePR(ps, id, Replace(ps[id], oldID, newID)), "OK", id, FALSE)

\* the active members of a team: the users a bulk deactivation deactivates
ActiveMembers(t) == {u \in DOMAIN users : users[u].team = t /\ users[u].active}

\* GetOpenPRsByReviewers: the open pull requests with a reviewer among U
OpenPRsByReviewers(ps, U) ==
    {id \in DOMAIN ps : ps[id].status = "OPEN" /\ \E u \in U : IsAssigned(ps[id], u)}

InU(U) == [u \in DOMAIN users |-> u \in U]

\* the reviewers that are not being deactivated, in their order
KeptReviewers(pr, U) ==
    LET keep == InU(DOMAIN users \ U)
        Kept(x) == x \notin DOMAIN users \/ keep[x]
    IN  SelectSeq(pr.reviewers, Kept)

\* candidates that may be among the users being deactivated
M_BulkCandidates(pr, U) ==
    {u \in DOMAIN users : /\ users[u].team = users[pr.author].team
                          /\ users[u].active
                          /\ u # pr.author
                          /\ ~ IsAssigned([pr EXCEPT !.reviewers = KeptReviewers(pr, U)], u)}

\* active members of the author's team that are not the author, not kept
\* reviewers and not being deactivated
BulkCandidates(pr, U) ==
    {u \in DOMAIN users : /\ users[u].team = users[pr.author].team
                          /\ users[u].active
                          /\ u # pr.author
                          /\ ~ IsAssigned([pr EXCEPT !.reviewers = KeptReviewers(pr, U)], u)
                          /\ u \notin U}

\* the reviewer lists a bulk deactivation can leave a pull request with: the
\* kept reviewers, topped up to 2 with the first candidates of a shuffle
BulkReviewerChoices(pr, U) ==
    LET kept == KeptReviewers(pr, U)
        needed == 2 - Len(kept)
        C == BulkCandidates(pr, U)
    IN  IF needed > 0 /\ C # {}
        THEN {kept \o SubSeq(sh, 1, Min(Cardinality(C), needed)) : sh \in Shuffles(C)}
        ELSE {kept}

\* BulkUpdateUsersActive(userIDs, false)
BulkUpdateUsersActive(U) == [u \in DOMAIN users |-> IF u \in U THEN [users[u] EXCEPT !.active = FALSE] ELSE users[u]]

\* the pull requests after the loop of BulkDeactivateTeamUsers, new[id] being
\* the reviewer list chosen for the open pull request id
BulkReassign(ps, U, new) ==
    [id \in DOMAIN ps |->
        IF id \in OpenPRsByReviewers(ps, U)
        THEN PrimaryUpdatePR(ps, id, [ps[id] EXCEPT !.reviewers = new[id]])[id]
        ELSE ps[id]]

\* INSERT INTO teams; INSERT INTO users ... ON CONFLICT (user_id) DO UPDATE,
\* in one transaction
StorageCreateTeam(t, members) ==
    [u \in DOMAIN users \cup members |->
        IF u \in members THEN [team |-> t, active |-> TRUE] ELSE users[u]]

\* the request (operation and pull_request_id, if any) and how it was answered
AReply(op, id, res) == [op |-> op, pr |-> id, err |-> res.err, allApproved |-> res.allApproved]

CreateTeam(t, members) ==
    /\ IF TeamExists(t)
       THEN /\ aresp' = AReply("CreateTeam", "", AFailed(prs, "TEAM_EXISTS"))
            /\ UNCHANGED <<teams, users>>
       ELSE /\ teams' = teams \cup {t}
            /\ users' = StorageCreateTeam(t, members)
            /\ aresp' = AReply("CreateTeam", "", AResult(prs, "OK", "", FALSE))
    /\ UNCHANGED <<commits, names, resp, prs, clock, maxCount, inflight, gvars>>

SetUserActive(u, isActive) ==
    /\ IF ~ UserExists(u)
       THEN /\ aresp' = AReply("SetUserActive", "", AFailed(prs, "NOT_FOUND"))
            /\ UNCHANGED users
       ELSE /\ users' = [users EXCEPT ![u].active = isActive]
            /\ aresp' = AReply("SetUserActive", "", AResult(prs, "OK", "", FALSE))
    /\ UNCHANGED <<svars, prs, clock, maxCount, inflight, gvars>>

AApply(op, id, res) ==
    /\ prs' = res.prs
    /\ aresp' = AReply(op, id, res)
    /\ UNCHANGED <<svars, users, maxCount, inflight, gvars>>

ReviewerChoices(authorID) ==
    IF UserExists(authorID)
    THEN selectReviewers(users[authorID].team, authorID, maxCount)
    ELSE {<<>>}

CreatePR(id, authorID) ==
    /\ \E reviewers \in ReviewerChoices(authorID) :
          AApply("CreatePR", id, ServiceCreatePR(prs, id, authorID, reviewers))
    /\ UNCHANGED clock

ApprovePR(id, reviewerID) ==
    /\ AApply("ApprovePR", id, ServiceApprovePR(prs, id, reviewerID))
    /\ UNCHANGED clock

RejectPR(id, reviewerID) ==
    /\ AApply("RejectPR", id, ServiceRejectPR(prs, id, reviewerID))
    /\ UNCHANGED clock

\* time.Now() is read only on the way to MERGED
Tick(res) == IF res.prs # prs THEN clock + 1 ELSE clock

MergePR(id) ==
    /\ AApply("MergePR", id, ServiceMergePR(prs, id, clock + 1))
    /\ clock' = Tick(ServiceMergePR(prs, id, clock + 1))

\* what rand.Intn can pick; a request that fails before the pick has none
ReassignPicks(id, oldID) ==
    IF PRExists(prs, id) /\ UserExists(oldID) /\ ReassignCandidates(prs[id], oldID) # {}
    THEN ReassignCandidates(prs[id], oldID)
    ELSE {""}

AltReassignReviewer(id, oldID) ==
    /\ \E newID \in ReassignPicks(id, oldID) :
          AApply("ReassignReviewer", id, AltServiceReassignReviewer(prs, id, oldID, newID))
    /\ UNCHANGED clock

ReassignReviewer(id, oldID) ==
    /\ \E newID \in ReassignPicks(id, oldID) :
          AApply("ReassignReviewer", id, ServiceReassignReviewer(prs, id, oldID, newID))
    /\ UNCHANGED clock

BulkDeactivateTeamUsers(t) ==
    /\ IF ~ TeamExists(t)
       THEN /\ aresp' = AReply("BulkDeactivate", "", AFailed(prs, "NOT_FOUND"))
            /\ UNCHANGED <<users, prs>>
       ELSE LET U == ActiveMembers(t)
                affected == OpenPRsByReviewers(prs, U)
            IN  \E new \in [affected -> UNION {BulkReviewerChoices(prs[id], U) : id \in affected}] :
                    /\ \A id \in affected : new[id] \in BulkReviewerChoices(prs[id], U)
                    /\ prs' = BulkReassign(prs, U, new)
                    /\ users' = BulkUpdateUsersActive(U)
                    /\ aresp' = AReply("BulkDeactivate", "", AResult(prs', "OK", "", FALSE))
    /\ UNCHANGED <<svars, clock, maxCount, inflight, gvars>>

AltMergePR(id) ==
    /\ AApply("MergePR", id, AltServiceMergePR(prs, id, clock + 1))
    /\ clock' = Tick(AltServiceMergePR(prs, id, clock + 1))

(***************************************************************************)
(* User gateway                                                            *)
(***************************************************************************)
RepoNames == {"svc"}

GwCommitNames == {"main", "feat", "fix"}

PRNames == {"p1"}

\* GET /team/resolve: a team's id is written as its name; "" when not found
ResolveTeamID(teamName) == IF TeamExists(teamName) THEN teamName ELSE ""

verifyUserAccess(username, teamName) ==
    IF ~ UserExists(username) THEN "USER_NOT_FOUND"
    ELSE IF ~ users[username].active THEN "USER_INACTIVE"
    ELSE IF users[username].team # teamName THEN "ACCESS_DENIED"
    ELSE "OK"

\* fmt.Sprintf("%s:%s", teamID, repoName)
RepoKey(teamID, repoName) == <<teamID, repoName>>

\* the cached root commit, NoCommit when the repository is not cached
getRootCommit(teamID, repoName) ==
    IF RepoKey(teamID, repoName) \in DOMAIN repoRootCommits
    THEN repoRootCommits[RepoKey(teamID, repoName)]
    ELSE NoCommit

\* GetCommitIDByName of the commit DAG engine; NoCommit on any error
ServiceGetCommitIDByName(t, r, n) ==
    IF ~ TeamExists(t) THEN NoCommit
    ELSE IF ~ RootCommitExists(t, r) THEN NoCommit
    ELSE GetCommitIDByName(t, r, n)

\* a resolution that sends every name, the repository name included, to the storage
M_resolveCommitByName(teamID, repoName, commitName) ==
    IF getRootCommit(teamID, repoName) = NoCommit THEN NoCommit
    ELSE ServiceGetCommitIDByName(teamID, getRootCommit(teamID, repoName), commitName)

resolveCommitByName(teamID, repoName, commitName) ==
    IF getRootCommit(teamID, repoName) = NoCommit THEN NoCommit
    ELSE IF commitName = repoName THEN getRootCommit(teamID, repoName)
    ELSE ServiceGetCommitIDByName(teamID, getRootCommit(teamID, repoName), commitName)

\* fmt.Sprintf("%s:%s", teamName, prName)
MetaKey(teamName, prName) == <<teamName, prName>>

\* the second key of a PRMetadata value: the PR id itself
IDKey(prID) == <<prID>>

\* the key as the string the map holds: the PR id, or teamName ":" prName
KeyString(key) == IF Len(key) = 1 THEN key[1] ELSE key[1] \o ":" \o key[2]

\* the team names of the model that start with "pr-"
PrTeamNames == {"pr-ops"}

\* strings.HasPrefix(key, "pr-"): the key starts with "pr-" exactly when its first
\* part does, which every synthesized PR id and every team name in PrTeamNames does
HasPrefixPr(key) == key[1] \in PRIDs \cup PrTeamNames

\* the keys of prMetadata that point to the same PRMetadata and start with "pr-"
PRIDKeys(ptr) == {key \in DOMAIN prMetadata : prMetadata[key] = ptr /\ HasPrefixPr(key)}

Call(name, e) == [call |-> name, err |-> e]

GResult(ps, cs, now, e, calls, id, st, mc) ==
    [prs |-> ps, commits |-> cs, clock |-> now, err |-> e, calls |-> calls,
     pr |-> id, status |-> st, mergeCommit |-> mc]

GFailed(e, calls) == GResult(prs, commits, clock, e, calls, "", "", NoCommit)

GReply(op, res) ==
    [op |-> op, err |-> res.err, calls |-> res.calls, pr |-> res.pr,
     status |-> res.status, mergeCommit |-> res.mergeCommit]

\* if allApproved { merge }, that skips the test
M_ShouldMerge(allApproved) == TRUE

\* if allApproved { merge }
ShouldMerge(allApproved) == allApproved

\* the error check after codeClient.Merge, that lets every answer through
M_MergeFailed(mg) == FALSE

\* mergeCommit, err := s.codeClient.Merge(...); if err != nil
MergeFailed(mg) == mg.err # "OK"

\* prClient.MergePR: the call itself may fail (transport, database)
ClientMergePR(ps, prID, now, fails) ==
    IF fails THEN AFailed(ps, "INTERNAL_ERROR") ELSE ServiceMergePR(ps, prID, now)

\* ApprovePR from the call of prClient.ApprovePR on
ApproveAndMerge(meta, prID, username, fails) ==
    LET ap == ServiceApprovePR(prs, prID, username)
        mg == ServiceMerge(meta.teamID, meta.rootCommit, meta.sourceCommit, meta.targetCommit)
        mp == ClientMergePR(ap.prs, prID, clock + 1, fails)
        c1 == <<Call("ApprovePR", ap.err)>>
        c2 == Append(c1, Call("Merge", mg.err))
        c3 == Append(c2, Call("MergePR", mp.err))
    IN  IF ap.err # "OK" THEN GFailed("failed to approve PR", c1)
        ELSE IF ~ ShouldMerge(ap.allApproved)
             THEN GResult(ap.prs, commits, clock, "OK", c1, prID, ap.prs[prID].status, NoCommit)
        ELSE IF MergeFailed(mg)
             THEN GResult(ap.prs, mg.commits, clock, "failed to merge", c2, "", "", NoCommit)
        ELSE IF mp.err # "OK"
             THEN GResult(ap.prs, mg.commits, clock, "failed to update PR status", c3, "", "", NoCommit)
        ELSE GResult(mp.prs, mg.commits, IF mp.prs # ap.prs THEN clock + 1 ELSE clock,
                     "OK", c3, prID, mp.prs[prID].status, mg.id)

ServiceApprove(username, teamName, prName, prID, fails) ==
    IF MetaKey(teamName, prName) \notin DOMAIN prMetadata THEN GFailed("PR_NOT_FOUND", <<>>)
    ELSE IF verifyUserAccess(username, teamName) # "OK"
         THEN GFailed(verifyUserAccess(username, teamName), <<>>)
    ELSE IF prID = "" THEN GFailed("PR_NOT_FOUND", <<>>)
    ELSE ApproveAndMerge(metas[prMetadata[MetaKey(teamName, prName)]], prID, username, fails)

\* the prID the loop over prMetadata can find ("" when there is none)
FoundPRIDs(teamName, prName) ==
    IF MetaKey(teamName, prName) \notin DOMAIN prMetadata THEN {""}
    ELSE IF PRIDKeys(prMetadata[MetaKey(teamName, prName)]) = {} THEN {""}
    ELSE {KeyString(key) : key \in PRIDKeys(prMetadata[MetaKey(teamName, prName)])}

GApply(op, res) ==
    /\ Len(res.commits) <= MaxCommits
    /\ commits' = res.commits
    /\ prs' = res.prs
    /\ clock' = res.clock
    /\ gresp' = GReply(op, res)

GwApprovePR(username, teamName, prName, fails) ==
    /\ \E prID \in FoundPRIDs(teamName, prName) :
          GApply("ApprovePR", ServiceApprove(username, teamName, prName, prID, fails))
    /\ UNCHANGED <<teams, names, resp, users, aresp, maxCount, inflight,
                   repoRootCommits, metas, prMetadata>>

GwCreateTeam(teamName, members) ==
    /\ IF TeamExists(teamName)
       THEN /\ gresp' = GReply("CreateTeam", GFailed("TEAM_EXISTS", <<Call("CreateTeam", "TEAM_EXISTS")>>))
            /\ UNCHANGED <<teams, users>>
       ELSE /\ teams' = teams \cup {teamName}
            /\ users' = StorageCreateTeam(teamName, members)
            /\ gresp' = GReply("CreateTeam", GFailed("OK", <<Call("CreateTeam", "OK")>>))
    /\ UNCHANGED <<commits, names, resp, prs, clock, aresp, maxCount, inflight,
                   repoRootCommits, metas, prMetadata>>

CountRoots(cs) == Cardinality({c \in DOMAIN cs : cs[c].root = c})

GwInitRepository(username, teamName, repoName, commitName, code) ==
    LET teamID == ResolveTeamID(teamName)
        res == ServiceInitRepository(teamID, commitName, code)
    IN  /\ IF teamID = ""
           THEN /\ gresp' = GReply("InitRepository", GFailed("TEAM_NOT_FOUND", <<>>))
                /\ UNCHANGED <<commits, names, repoRootCommits>>
           ELSE IF verifyUserAccess(username, teamName) # "OK"
           THEN /\ gresp' = GReply("InitRepository", GFailed(verifyUserAccess(username, teamName), <<>>))
                /\ UNCHANGED <<commits, names, repoRootCommits>>
           ELSE /\ Len(res.commits) <= MaxCommits
                /\ CountRoots(res.commits) <= MaxRepos
                /\ commits' = res.commits
                /\ names' = res.names
                /\ IF res.err # "OK"
                   THEN /\ gresp' = GReply("InitRepository",
                                           GFailed("failed to init repository", <<Call("InitRepository", res.err)>>))
                        /\ UNCHANGED repoRootCommits
                   ELSE /\ gresp' = GReply("InitRepository",
                                           GFailed("OK", <<Call("InitRepository", "OK")>>))
                        /\ repoRootCommits' =
                              [k \in DOMAIN repoRootCommits \cup {RepoKey(teamID, repoName)} |->
                                  IF k = RepoKey(teamID, repoName) THEN res.id ELSE repoRootCommits[k]]
        /\ UNCHANGED <<teams, resp, avars, metas, prMetadata>>

GwPush(username, teamName, repoName, parentCommitName, commitName, code) ==
    LET teamID == ResolveTeamID(teamName)
        rootCommit == getRootCommit(teamID, repoName)
        parentCommit == resolveCommitByName(teamID, repoName, parentCommitName)
        res == ServicePush(teamID, rootCommit, parentCommit, commitName, code)
    IN  /\ IF verifyUserAccess(username, teamName) # "OK"
           THEN /\ gresp' = GReply("Push", GFailed(verifyUserAccess(username, teamName), <<>>))
                /\ UNCHANGED <<commits, names>>
           ELSE IF teamID = ""
           THEN /\ gresp' = GReply("Push", GFailed("TEAM_NOT_FOUND", <<>>))
                /\ UNCHANGED <<commits, names>>
           ELSE IF rootCommit = NoCommit \/ parentCommit = NoCommit
           THEN /\ gresp' = GReply("Push", GFailed("COMMIT_NOT_FOUND", <<>>))
                /\ UNCHANGED <<commits, names>>
           ELSE /\ Len(res.commits) <= MaxCommits
                /\ commits' = res.commits
                /\ names' = res.names
                /\ gresp' = GReply("Push",
                                   GFailed(IF res.err = "OK" THEN "OK" ELSE "failed to push",
                                           <<Call("Push", res.err)>>))
        /\ UNCHANGED <<teams, resp, avars, repoRootCommits, metas, prMetadata>>

PRMeta(teamName, prName, repoName, teamID, rootCommit, sourceCommit, targetCommit) ==
    [prName |-> prName, teamName |-> teamName, repoName |-> repoName, teamID |-> teamID,
     rootCommit |-> rootCommit, sourceCommit |-> sourceCommit, targetCommit |-> targetCommit]

\* a CreatePR that stores the metadata whatever the allocation service answered
M_GwCreatePR(username, teamName, repoName, prName, sourceCommitName, targetCommitName, prID) ==
    LET teamID == ResolveTeamID(teamName)
        rootCommit == getRootCommit(teamID, repoName)
        sourceCommit == resolveCommitByName(teamID, repoName, sourceCommitName)
        targetCommit == resolveCommitByName(teamID, repoName, targetCommitName)
        ptr == Len(metas) + 1
    IN  /\ IF verifyUserAccess(username, teamName) # "OK"
           THEN /\ gresp' = GReply("CreatePR", GFailed(verifyUserAccess(username, teamName), <<>>))
                /\ UNCHANGED <<prs, metas, prMetadata>>
           ELSE IF teamID = ""
           THEN /\ gresp' = GReply("CreatePR", GFailed("TEAM_NOT_FOUND", <<>>))
                /\ UNCHANGED <<prs, metas, prMetadata>>
           ELSE IF rootCommit = NoCommit \/ sourceCommit = NoCommit \/ targetCommit = NoCommit
           THEN /\ gresp' = GReply("CreatePR", GFailed("COMMIT_NOT_FOUND", <<>>))
                /\ UNCHANGED <<prs, metas, prMetadata>>
           ELSE \E reviewers \in ReviewerChoices(username) :
                   LET res == ServiceCreatePR(prs, prID, username, reviewers)
                   IN  /\ prs' = res.prs
                       /\ gresp' = IF res.err # "OK"
                                   THEN GReply("CreatePR",
                                               GFailed("failed to create PR", <<Call("CreatePR", res.err)>>))
                                   ELSE GReply("CreatePR",
                                               GResult(res.prs, commits, clock, "OK",
                                                       <<Call("CreatePR", "OK")>>, prID, "OPEN", NoCommit))
                       /\ metas' = Append(metas, PRMeta(teamName, prName, repoName, teamID,
                                                        rootCommit, sourceCommit, targetCommit))
                       /\ prMetadata' =
                             [k \in DOMAIN prMetadata \cup {MetaKey(teamName, prName), IDKey(prID)} |->
                                 IF k \in {MetaKey(teamName, prName), IDKey(prID)}
                                 THEN ptr ELSE prMetadata[k]]
        /\ UNCHANGED <<svars, users, clock, aresp, maxCount, inflight, repoRootCommits>>


GwCreatePR(username, teamName, repoName, prName, sourceCommitName, targetCommitName, prID) ==
    LET teamID == ResolveTeamID(teamName)
        rootCommit == getRootCommit(teamID, repoName)
        sourceCommit == resolveCommitByName(teamID, repoName, sourceCommitName)
        targetCommit == resolveCommitByName(teamID, repoName, targetCommitName)
        ptr == Len(metas) + 1
    IN  /\ IF verifyUserAccess(username, teamName) # "OK"
           THEN /\ gresp' = GReply("CreatePR", GFailed(verifyUserAccess(username, teamName), <<>>))
                /\ UNCHANGED <<prs, metas, prMetadata>>
           ELSE IF teamID = ""
           THEN /\ gresp' = GReply("CreatePR", GFailed("TEAM_NOT_FOUND", <<>>))
                /\ UNCHANGED <<prs, metas, prMetadata>>
           ELSE IF rootCommit = NoCommit \/ sourceCommit = NoCommit \/ targetCommit = NoCommit
           THEN /\ gresp' = GReply("CreatePR", GFailed("COMMIT_NOT_FOUND", <<>>))
                /\ UNCHANGED <<prs, metas, prMetadata>>
           ELSE \E reviewers \in ReviewerChoices(username) :
                   LET res == ServiceCreatePR(prs, prID, username, reviewers)
                   IN  /\ prs' = res.prs
                       /\ IF res.err # "OK"
                          THEN /\ gresp' = GReply("CreatePR",
                                                  GFailed("failed to create PR", <<Call("CreatePR", res.err)>>))
                               /\ UNCHANGED <<metas, prMetadata>>
                          ELSE /\ gresp' = GReply("CreatePR",
                                                  GResult(res.prs, commits, clock, "OK",
                                                          <<Call("CreatePR", "OK")>>, prID, "OPEN", NoCommit))
                               /\ metas' = Append(metas, PRMeta(teamName, prName, repoName, teamID,
                                                                rootCommit, sourceCommit, targetCommit))
                               /\ prMetadata' =
                                     [k \in DOMAIN prMetadata \cup {MetaKey(teamName, prName), IDKey(prID)} |->
                                         IF k \in {MetaKey(teamName, prName), IDKey(prID)}
                                         THEN ptr ELSE prMetadata[k]]
        /\ UNCHANGED <<svars, users, clock, aresp, maxCount, inflight, repoRootCommits>>

(***************************************************************************)
(* The remaining team-scoped operations of the gateway                     *)
(***************************************************************************)
\* the answer of an operation that returns code
GwCheckoutReply(op, e, calls, code) ==
    [op |-> op, err |-> e, calls |-> calls, pr |-> "", status |-> "",
     mergeCommit |-> NoCommit, code |-> code]

GwCheckout(username, teamName, repoName, commitName) ==
    LET teamID == ResolveTeamID(teamName)
        rootCommit == getRootCommit(teamID, repoName)
        commitID == resolveCommitByName(teamID, repoName, commitName)
        res == ServiceCheckout(teamID, rootCommit, commitID)
    IN  /\ gresp' =
              IF verifyUserAccess(username, teamName) # "OK"
              THEN GwCheckoutReply("Checkout", verifyUserAccess(username, teamName), <<>>, "none")
              ELSE IF teamID = ""
              THEN GwCheckoutReply("Checkout", "TEAM_NOT_FOUND", <<>>, "none")
              ELSE IF rootCommit = NoCommit \/ commitID = NoCommit
              THEN GwCheckoutReply("Checkout", "COMMIT_NOT_FOUND", <<>>, "none")
              ELSE IF res.err # "OK"
              THEN GwCheckoutReply("Checkout", "COMMIT_NOT_FOUND", <<Call("Checkout", res.err)>>, "none")
              ELSE GwCheckoutReply("Checkout", "OK", <<Call("Checkout", "OK")>>, res.code)
        /\ UNCHANGED <<svars, avars, repoRootCommits, metas, prMetadata>>

\* what GetPRCode answers: access check, metadata lookup, checkout of the source
ServiceGetPRCode(username, teamName, prName) ==
    LET key == MetaKey(teamName, prName)
        meta == metas[prMetadata[key]]
        res == ServiceCheckout(meta.teamID, meta.rootCommit, meta.sourceCommit)
    IN  IF verifyUserAccess(username, teamName) # "OK"
        THEN GwCheckoutReply("GetPRCode", verifyUserAccess(username, teamName), <<>>, "none")
        ELSE IF key \notin DOMAIN prMetadata
        THEN GwCheckoutReply("GetPRCode", "PR_NOT_FOUND", <<>>, "none")
        ELSE IF res.err # "OK"
        THEN GwCheckoutReply("GetPRCode", "failed to get PR code", <<Call("Checkout", res.err)>>, "none")
        ELSE GwCheckoutReply("GetPRCode", "OK", <<Call("Checkout", "OK")>>, res.code)

GwGetPRCode(username, teamName, prName) ==
    /\ gresp' = ServiceGetPRCode(username, teamName, prName)
    /\ UNCHANGED <<svars, avars, repoRootCommits, metas, prMetadata>>

\* RejectPR of the gateway: metadata lookup, access check, id lookup, call
ServiceReject(username, teamName, prName, prID) ==
    LET rj == ServiceRejectPR(prs, prID, username)
    IN  IF MetaKey(teamName, prName) \notin DOMAIN prMetadata THEN GFailed("PR_NOT_FOUND", <<>>)
        ELSE IF verifyUserAccess(username, teamName) # "OK"
             THEN GFailed(verifyUserAccess(username, teamName), <<>>)
        ELSE IF prID = "" THEN GFailed("PR_NOT_FOUND", <<>>)
        ELSE IF rj.err # "OK" THEN GFailed("failed to reject PR", <<Call("RejectPR", rj.err)>>)
        ELSE GResult(rj.prs, commits, clock, "OK", <<Call("RejectPR", "OK")>>,
                     prID, rj.prs[prID].status, NoCommit)

GwRejectPR(username, teamName, prName) ==
    /\ \E prID \in FoundPRIDs(teamName, prName) :
          GApply("RejectPR", ServiceReject(username, teamName, prName, prID))
    /\ UNCHANGED <<teams, names, resp, users, aresp, maxCount, inflight,
                   repoRootCommits, metas, prMetadata>>

\* the sentinel errors of the gateway's domain package
GatewaySentinels ==
    {"ACCESS_DENIED", "USER_NOT_FOUND", "USER_INACTIVE", "TEAM_NOT_FOUND", "TEAM_EXISTS",
     "COMMIT_NOT_FOUND", "PR_NOT_FOUND", "PR_ALREADY_EXISTS", "PR_ALREADY_MERGED", "NOT_REVIEWER"}

\* handleServiceError of the gateway: the code the client reads
handleServiceError(e) ==
    IF e = "OK" THEN "OK"
    ELSE IF e \in GatewaySentinels THEN e
    ELSE "INTERNAL_ERROR"

(***************************************************************************)
(* Overlapping requests of the allocation service.  A handler reads the    *)
(* row with GetPR, changes its copy and writes the copy with UpdatePR; the *)
(* service holds no lock and opens no transaction between the two, so a    *)
(* request is two steps and other requests may run in between.             *)
(***************************************************************************)
Requests == {"r1", "r2"}

\* a request after GetPR: res is what the handler computed from the row it read;
\* it waits for its UpdatePR when the handler reaches one, else it has answered
AfterRead(op, id, u, res) ==
    [op |-> op, pr |-> id, user |-> u,
     pc |-> IF res.prs # prs THEN "write" ELSE "done",
     row |-> IF res.prs # prs THEN res.prs[id] ELSE <<>>,
     err |-> res.err, allApproved |-> res.allApproved]

Begin(r, op, id, u, res) ==
    /\ r \notin DOMAIN inflight
    /\ inflight' = [x \in DOMAIN inflight \cup {r} |->
                       IF x = r THEN AfterRead(op, id, u, res) ELSE inflight[x]]
    /\ aresp' = IF res.prs # prs THEN aresp ELSE AReply(op, id, res)
    /\ UNCHANGED <<svars, users, prs, maxCount, gvars>>

Writing(r) == r \in DOMAIN inflight /\ inflight[r].pc = "write"

Answer(r) ==
    /\ inflight' = [inflight EXCEPT ![r].pc = "done"]
    /\ aresp' = [op |-> inflight[r].op, pr |-> inflight[r].pr, err |-> inflight[r].err,
                 allApproved |-> inflight[r].allApproved]
    /\ UNCHANGED <<svars, users, clock, maxCount, gvars>>

\* ApprovePR up to its UpdatePR
ApproveBegin(r, id, reviewerID) ==
    /\ Begin(r, "ApprovePR", id, reviewerID, ServiceApprovePR(prs, id, reviewerID))
    /\ UNCHANGED clock

\* ReassignReviewer of the primary service up to its UpdatePR
ReassignBegin(r, id, oldID) ==
    /\ \E newID \in ReassignPicks(id, oldID) :
          Begin(r, "ReassignReviewer", id, oldID, ServiceReassignReviewer(prs, id, oldID, newID))
    /\ UNCHANGED clock

\* the UpdatePR of a request of the primary service, and its answer
WriteBack(r) ==
    /\ Writing(r)
    /\ prs' = PrimaryUpdatePR(prs, inflight[r].pr, inflight[r].row)
    /\ Answer(r)

\* MergePR of the alternate profile up to its UpdatePR
AltMergeBegin(r, id) ==
    /\ Begin(r, "MergePR", id, "", AltServiceMergePR(prs, id, clock + 1))
    /\ clock' = Tick(AltServiceMergePR(prs, id, clock + 1))

\* ReassignReviewer of the alternate profile up to its UpdatePR
AltReassignBegin(r, id, oldID) ==
    /\ \E newID \in ReassignPicks(id, oldID) :
          Begin(r, "ReassignReviewer", id, oldID, AltServiceReassignReviewer(prs, id, oldID, newID))
    /\ UNCHANGED clock

\* the UpdatePR of a request of the alternate profile, and its answer
AltWriteBack(r) ==
    /\ Writing(r)
    /\ prs' = UpdatePR(prs, inflight[r].pr, inflight[r].row)
    /\ Answer(r)

(***************************************************************************)
(* Overlapping handlers of the gateway.  Each request runs in a goroutine  *)
(* of its own; the Service value they share has no mutex, so nothing keeps *)
(* a handler out of prMetadata while another one is in it.                 *)
(***************************************************************************)

Join(r, rec) == [x \in DOMAIN inflight \cup {r} |-> IF x = r THEN rec ELSE inflight[x]]

\* CreatePR up to the assignment s.prMetadata[metaKey] = &PRMetadata{...}
GwCreatePRBegin(r, username, teamName, repoName, prName, sourceCommitName, targetCommitName, prID) ==
    LET teamID == ResolveTeamID(teamName)
        rootCommit == getRootCommit(teamID, repoName)
        sourceCommit == resolveCommitByName(teamID, repoName, sourceCommitName)
        targetCommit == resolveCommitByName(teamID, repoName, targetCommitName)
    IN  /\ r \notin DOMAIN inflight
        /\ verifyUserAccess(username, teamName) = "OK"
        /\ teamID # ""
        /\ rootCommit # NoCommit /\ sourceCommit # NoCommit /\ targetCommit # NoCommit
        /\ \E reviewers \in ReviewerChoices(username) :
              LET res == ServiceCreatePR(prs, prID, username, reviewers)
              IN  /\ res.err = "OK"
                  /\ prs' = res.prs
        /\ inflight' = Join(r, [op |-> "CreatePR", pc |-> "mapwrite", id |-> prID,
                                key |-> MetaKey(teamName, prName),
                                meta |-> PRMeta(teamName, prName, repoName, teamID,
                                                rootCommit, sourceCommit, targetCommit)])
        /\ UNCHANGED <<svars, users, clock, aresp, maxCount, gvars>>

\* the two assignments to s.prMetadata and the answer of CreatePR
GwCreatePREnd(r) ==
    /\ r \in DOMAIN inflight /\ inflight[r].pc = "mapwrite"
    /\ metas' = Append(metas, inflight[r].meta)
    /\ prMetadata' = [k \in DOMAIN prMetadata \cup {inflight[r].key, IDKey(inflight[r].id)} |->
                         IF k \in {inflight[r].key, IDKey(inflight[r].id)}
                         THEN Len(metas) + 1 ELSE prMetadata[k]]
    /\ gresp' = GReply("CreatePR", GResult(prs, commits, clock, "OK", <<Call("CreatePR", "OK")>>,
                                           inflight[r].id, "OPEN", NoCommit))
    /\ inflight' = [inflight EXCEPT ![r].pc = "done"]
    /\ UNCHANGED <<svars, users, prs, clock, aresp, maxCount, repoRootCommits>>

\* ApprovePR entering its lookup and its loop over s.prMetadata
GwApproveBegin(r, username, teamName, prName) ==
    /\ r \notin DOMAIN inflight
    /\ inflight' = Join(r, [op |-> "ApprovePR", pc |-> "mapread", user |-> username,
                            team |-> teamName, name |-> prName])
    /\ UNCHANGED <<svars, users, prs, clock, aresp, maxCount, gvars>>

\* ApprovePR from the end of the loop over s.prMetadata on
GwApproveEnd(r) ==
    /\ r \in DOMAIN inflight /\ inflight[r].pc = "mapread"
    /\ \E prID \in FoundPRIDs(inflight[r].team, inflight[r].name) :
          GApply("ApprovePR", ServiceApprove(inflight[r].user, inflight[r].team,
                                             inflight[r].name, prID, FALSE))
    /\ inflight' = [inflight EXCEPT ![r].pc = "done"]
    /\ UNCHANGED <<teams, names, resp, users, aresp, maxCount, repoRootCommits, metas, prMetadata>>

InMap(r) == r \in DOMAIN inflight /\ inflight[r].pc \in {"mapread", "mapwrite"}

\* a handler is assigning to the map while another handler is in the map
MapRace ==
    \E w \in DOMAIN inflight, r \in DOMAIN inflight :
        w # r /\ inflight[w].pc = "mapwrite" /\ InMap(r)

\* what the Go runtime may do with a map read and a map write that overlap:
\* "fatal error: concurrent map read and map write" ends the process, and with
\* it the maps of the Service value and the requests in flight
GwFatal ==
    /\ MapRace
    /\ prMetadata' = <<>>
    /\ metas' = <<>>
    /\ repoRootCommits' = <<>>
    /\ inflight' = <<>>
    /\ gresp' = GReply("fatal", GFailed("INTERNAL_ERROR", <<>>))
    /\ UNCHANGED <<svars, users, prs, clock, aresp, maxCount>>

(***************************************************************************)
(* CreateTeam of the alternate profile with the statements of its          *)
(* transaction: INSERT INTO teams, one upsert per member, COMMIT.  Any of  *)
(* them may fail; failAt names the one that does, done the members         *)
(* upserted before it.                                                     *)
(***************************************************************************)
FailPoints == {"none", "team", "user", "commit"}

\* what the statements executed before the failure have written inside the transaction
TxWork(t, members, failAt, done) ==
    [teams |-> IF failAt = "team" THEN teams ELSE teams \cup {t},
     users |-> IF failAt = "team" THEN users
               ELSE IF failAt = "user" THEN StorageCreateTeam(t, done)
               ELSE StorageCreateTeam(t, members)]

TxError(failAt) ==
    IF failAt = "team" THEN "failed to create team"
    ELSE IF failAt = "user" THEN "failed to create user"
    ELSE IF failAt = "commit" THEN "failed to commit transaction"
    ELSE "OK"

\* a CreateTeam without the deferred rollback: what was written stays
M_PostgresCreateTeam(t, members, failAt, done) ==
    [teams |-> TxWork(t, members, failAt, done).teams,
     users |-> TxWork(t, members, failAt, done).users,
     err |-> TxError(failAt)]

\* PostgresStorage.CreateTeam: defer tx.Rollback() undoes everything unless
\* tx.Commit() succeeded
PostgresCreateTeam(t, members, failAt, done) ==
    IF failAt = "none"
    THEN [teams |-> TxWork(t, members, failAt, done).teams,
          users |-> TxWork(t, members, failAt, done).users,
          err |-> "OK"]
    ELSE [teams |-> teams, users |-> users, err |-> TxError(failAt)]

\* Service.CreateTeam of the alternate profile
AltServiceCreateTeam(t, members, failAt, done) ==
    IF TeamExists(t) THEN [teams |-> teams, users |-> users, err |-> "TEAM_EXISTS"]
    ELSE PostgresCreateTeam(t, members, failAt, done)

AltCreateTeam(t, members, failAt, done) ==
    LET res == AltServiceCreateTeam(t, members, failAt, done)
    IN  /\ failAt = "user" => done # members
        /\ failAt # "user" => done = {}
        /\ teams' = res.teams
        /\ users' = res.users
        /\ aresp' = AReply("CreateTeam", "", AFailed(prs, res.err))
        /\ UNCHANGED <<commits, names, resp, prs, clock, maxCount, inflight, gvars>>

(***************************************************************************)
(* Overlapping requests of the commit DAG engine.  Service.Merge runs its  *)
(* existence and leaf queries and then calls Storage.MergeCommits; each is *)
(* a statement of its own on the connection pool, with no transaction and  *)
(* no row lock, so other requests may insert commits in between.           *)
(***************************************************************************)

\* commits the table holds when two overlapping merges of two leaves both insert
RaceCommits == MaxCommits + 1

\* Merge up to and including its two IsLeafCommit queries: a request whose checks
\* fail has answered, one whose checks pass waits for its INSERT
MergeBegin(r, t, root, a, b) ==
    LET e == ServiceMerge(t, root, a, b).err
    IN  /\ r \notin DOMAIN inflight
        /\ inflight' = Join(r, [op |-> "Merge", pc |-> IF e = "OK" THEN "insert" ELSE "done",
                                team |-> t, root |-> root, a |-> a, b |-> b])
        /\ resp' = IF e = "OK" THEN resp
                   ELSE [op |-> "Merge", err |-> MapErrorToCode(e), id |-> NoCommit]
        /\ UNCHANGED <<teams, commits, names, users, prs, clock, aresp, maxCount, gvars>>

\* Storage.MergeCommits of a request whose checks passed, and its answer
MergeEnd(r) ==
    /\ r \in DOMAIN inflight /\ inflight[r].pc = "insert"
    /\ LET res == StorageMergeCommits(inflight[r].team, inflight[r].root,
                                      inflight[r].a, inflight[r].b)
       IN  /\ Len(res.commits) <= RaceCommits
           /\ commits' = res.commits
           /\ names' = res.names
           /\ resp' = [op |-> "Merge", err |-> MapErrorToCode(res.err), id |-> res.id]
    /\ inflight' = [inflight EXCEPT ![r].pc = "done"]
    /\ UNCHANGED <<teams, users, prs, clock, aresp, maxCount, gvars>>


NoResp == [op |-> "none", err |-> "OK", id |-> NoCommit]

NoAResp == [op |-> "none", err |-> "OK", pr |-> "", allApproved |-> FALSE]

NoGResp == [op |-> "none", err |-> "OK", calls |-> <<>>, pr |-> "", status |-> "", mergeCommit |-> NoCommit]

EmptyTables ==
    /\ commits = <<>>
    /\ names = {}
    /\ resp = NoResp
    /\ users = <<>>
    /\ prs = <<>>
    /\ clock = 0
    /\ aresp = NoAResp
    /\ repoRootCommits = <<>>
    /\ metas = <<>>
    /\ prMetadata = <<>>
    /\ gresp = NoGResp
    /\ inflight = <<>>

\* the commit DAG engine on its own: team alpha is in the shared teams table
Init == teams = {"alpha"} /\ maxCount = 1 /\ EmptyTables

\* Requests are drawn so that every check of a handler is reached with every
\* value it reads; the arguments a handler returns before reading take one value.
RootArgs(t) == IF TeamExists(t) THEN KnownIDs ELSE {1}

CommitArgs(t, r) == IF TeamExists(t) /\ RootCommitExists(t, r) THEN KnownIDs ELSE {1}

NameArgs(t, r, p) == IF CommitRowExists(t, r, p) THEN CommitNames ELSE {""}

DoInitRepository ==
    \E t \in TeamIDs :
        \E n \in (IF TeamExists(t) THEN CommitNames ELSE {""}), code \in Codes :
            InitRepository(t, n, code)

DoPush ==
    \E t \in TeamIDs :
        \E r \in RootArgs(t) :
            \E p \in CommitArgs(t, r) :
                \E n \in NameArgs(t, r, p), code \in Codes : Push(t, r, p, n, code)

DoMerge ==
    \E t \in TeamIDs :
        \E r \in RootArgs(t) :
            \E a \in CommitArgs(t, r) :
                \E b \in (IF CommitRowExists(t, r, a) THEN KnownIDs ELSE {1}) :
                    Merge(t, r, a, b)

Next == DoInitRepository \/ DoPush \/ DoMerge

Spec == Init /\ [][Next]_vars

(***************************************************************************)
(* The primary allocation service, requests sent to it directly            *)
(***************************************************************************)

InitAlloc == teams = {} /\ maxCount = 1 /\ EmptyTables

AllocTeamNames == {"alpha", "beta"}

AllocPRIDs == {"pr-1"}

AllocUserIDs == {"u1", "u2", "u3", "u4"}

\* an author that stays in the first team and one that the second team takes over
AllocAuthors == {"u1", "u3"}

AllocMemberSets(t) == IF t = "alpha" THEN {{"u1", "u2", "u3", "u4"}} ELSE {{"u3"}}

DoAllocCreateTeam ==
    \E t \in AllocTeamNames : \E members \in AllocMemberSets(t) : CreateTeam(t, members)

DoAllocSetUserActive == \E u \in AllocUserIDs, isActive \in BOOLEAN : SetUserActive(u, isActive)

DoAllocCreatePR == \E id \in AllocPRIDs, authorID \in AllocAuthors : CreatePR(id, authorID)

DoApprovePR == \E id \in AllocPRIDs, u \in AllocUserIDs : ApprovePR(id, u)

DoRejectPR == \E id \in AllocPRIDs, u \in AllocUserIDs : RejectPR(id, u)

DoMergePR == \E id \in AllocPRIDs : MergePR(id)

DoReassignReviewer == \E id \in AllocPRIDs, oldID \in AllocUserIDs : ReassignReviewer(id, oldID)

DoBulkDeactivate == \E t \in AllocTeamNames : BulkDeactivateTeamUsers(t)

NextAlloc ==
    \/ DoAllocCreateTeam
    \/ DoAllocSetUserActive
    \/ DoAllocCreatePR
    \/ DoApprovePR
    \/ DoRejectPR
    \/ DoMergePR
    \/ DoReassignReviewer
    \/ DoBulkDeactivate

SpecAlloc == InitAlloc /\ [][NextAlloc]_vars

(***************************************************************************)
(* The primary allocation service with overlapping approvals and           *)
(* reassignments of one pull request                                       *)
(***************************************************************************)
\* u1 opens the PR; the bulk deactivation of the second team refills the PR that
\* u3 reviewed up to two reviewers
RaceAuthors == {"u1"}

RaceBulkTeams == {"beta"}

DoRaceCreateTeam ==
    \E t \in AllocTeamNames : \E members \in AllocMemberSets(t) : CreateTeam(t, members)

DoRaceCreatePR == \E id \in AllocPRIDs, authorID \in RaceAuthors : CreatePR(id, authorID)

DoRaceBulkDeactivate == \E t \in RaceBulkTeams : BulkDeactivateTeamUsers(t)

DoApproveBegin == \E r \in Requests, id \in AllocPRIDs, u \in AllocUserIDs : ApproveBegin(r, id, u)

DoReassignBegin == \E r \in Requests, id \in AllocPRIDs, u \in AllocUserIDs : ReassignBegin(r, id, u)

DoWriteBack == \E r \in Requests : WriteBack(r)

NextRace ==
    \/ DoRaceCreateTeam
    \/ DoRaceCreatePR
    \/ DoRaceBulkDeactivate
    \/ DoApproveBegin
    \/ DoReassignBegin
    \/ DoWriteBack

SpecRace == InitAlloc /\ [][NextRace]_vars

(***************************************************************************)
(* The commit DAG engine with commits of different code: one team, no      *)
(* names, so that the code a merge stores can be told from its parents'.   *)
(***************************************************************************)

MergeCodes == {"Z0", "Z1"}

DoInitCode == \E code \in Codes : InitRepository("alpha", "", code)

DoPushCode ==
    \E r \in RootArgs("alpha") :
        \E p \in CommitArgs("alpha", r), code \in MergeCodes : Push("alpha", r, p, "", code)

DoMergeCode ==
    \E r \in RootArgs("alpha") :
        \E a \in CommitArgs("alpha", r) :
            \E b \in (IF CommitRowExists("alpha", r, a) THEN KnownIDs ELSE {1}) :
                Merge("alpha", r, a, b)

NextCode == DoInitCode \/ DoPushCode \/ DoMergeCode

SpecCode == Init /\ [][NextCode]_vars


(***************************************************************************)
(* The commit DAG engine with overlapping Merge requests: one team, no     *)
(* names, pushes and repository creation between the steps of a merge.     *)
(***************************************************************************)
DoStRaceInit == \E code \in Codes : InitRepository("alpha", "", code)

DoStRacePush ==
    \E r \in RootArgs("alpha") :
        \E p \in CommitArgs("alpha", r), code \in Codes : Push("alpha", r, p, "", code)

DoMergeBegin ==
    \E q \in Requests, r \in RootArgs("alpha") :
        \E a \in CommitArgs("alpha", r) :
            \E b \in (IF CommitRowExists("alpha", r, a) THEN KnownIDs ELSE {1}) :
                MergeBegin(q, "alpha", r, a, b)

DoMergeEnd == \E q \in Requests : MergeEnd(q)

NextStRace == DoStRaceInit \/ DoStRacePush \/ DoMergeBegin \/ DoMergeEnd

SpecStRace == Init /\ [][NextStRace]_vars


(***************************************************************************)
(* The allocation service of the alternate profile (repository root):      *)
(* two reviewers per PR, no approvals                                      *)
(***************************************************************************)
TeamNames == {"alpha"}

MemberSets == {{"u1"}, {"u1", "u2"}, {"u1", "u2", "u3"}, {"u1", "u2", "u3", "u4"}}

\* one pull request, and users enough for more candidates than reviewers
AltUserIDs == {"u1", "u2", "u3", "u4"}

AltPRIDs == {"pr-1"}

InitAlt == teams = {} /\ maxCount = 2 /\ EmptyTables

\* a second team takes over two users of the first
AltTeamNames == {"alpha", "beta"}

MemberSetsOf(t) == IF t = "alpha" THEN MemberSets ELSE {{"u2", "u3"}}

DoCreateTeam == \E t \in AltTeamNames : \E members \in MemberSetsOf(t) : CreateTeam(t, members)

DoSetUserActive == \E u \in AltUserIDs, isActive \in BOOLEAN : SetUserActive(u, isActive)

DoCreatePR == \E id \in AltPRIDs, authorID \in AltUserIDs : CreatePR(id, authorID)

DoAltMergePR == \E id \in AltPRIDs : AltMergePR(id)

DoAltReassignReviewer == \E id \in AltPRIDs, oldID \in AltUserIDs : AltReassignReviewer(id, oldID)

NextAlt ==
    DoCreateTeam \/ DoSetUserActive \/ DoCreatePR \/ DoAltMergePR \/ DoAltReassignReviewer

SpecAlt == InitAlt /\ [][NextAlt]_vars

(***************************************************************************)
(* The alternate profile with MergePR and ReassignReviewer overlapping     *)
(***************************************************************************)
RaceAltMembers == {"u1", "u2", "u3", "u4"}

RaceAltAuthors == {"u1"}

DoRaceAltCreateTeam == \E t \in TeamNames : CreateTeam(t, RaceAltMembers)

DoRaceAltCreatePR == \E id \in AltPRIDs, authorID \in RaceAltAuthors : CreatePR(id, authorID)

DoAltMergeBegin == \E r \in Requests, id \in AltPRIDs : AltMergeBegin(r, id)

DoAltReassignBegin ==
    \E r \in Requests, id \in AltPRIDs, oldID \in AltUserIDs : AltReassignBegin(r, id, oldID)

DoAltWriteBack == \E r \in Requests : AltWriteBack(r)

NextRaceAlt ==
    \/ DoRaceAltCreateTeam
    \/ DoRaceAltCreatePR
    \/ DoAltMergeBegin
    \/ DoAltReassignBegin
    \/ DoAltWriteBack

SpecRaceAlt == InitAlt /\ [][NextRaceAlt]_vars

(***************************************************************************)
(* The alternate profile with a CreateTeam that may fail part-way          *)
(***************************************************************************)
TxMemberSets(t) == IF t = "alpha" THEN {{"u1", "u2"}} ELSE {{"u2", "u3"}}

DoAltCreateTeamTx ==
    \E t \in AltTeamNames, failAt \in FailPoints :
        \E members \in TxMemberSets(t) : \E done \in SUBSET members :
            AltCreateTeam(t, members, failAt, done)

DoTxSetUserActive == \E u \in UserIDs, isActive \in BOOLEAN : SetUserActive(u, isActive)

DoTxCreatePR == \E id \in AltPRIDs, authorID \in UserIDs : CreatePR(id, authorID)

NextAltTeam == DoAltCreateTeamTx \/ DoTxSetUserActive \/ DoTxCreatePR

SpecAltTeam == InitAlt /\ [][NextAltTeam]_vars


(***************************************************************************)
(* The gateway in front of the primary allocation service and the commit   *)
(* DAG engine                                                              *)
(***************************************************************************)
InitGw == teams = {} /\ maxCount \in {1, 2} /\ EmptyTables

\* the requests of the scenarios: u1 owns the repository and opens the PRs,
\* every user may approve
GwMembers == {"u1", "u2", "u3"}

GwAuthors == {"u1"}

GwSources == {"feat"}

GwPRIDs == {"pr-1"}

\* the names pushed onto a repository whose root is named main
GwBranches == {"feat", "fix"}

DoGwCreateTeam == \E t \in TeamNames : GwCreateTeam(t, GwMembers)

DoGwInitRepository ==
    \E u \in GwAuthors, t \in TeamNames, repo \in RepoNames, code \in Codes :
        GwInitRepository(u, t, repo, "main", code)

DoGwPush ==
    \E u \in GwAuthors, t \in TeamNames, repo \in RepoNames, code \in Codes :
        \E p \in GwCommitNames, n \in GwBranches : GwPush(u, t, repo, p, n, code)

DoGwCreatePR ==
    \E u \in GwAuthors, t \in TeamNames, repo \in RepoNames, n \in PRNames, id \in GwPRIDs :
        \E src \in GwSources, tgt \in GwCommitNames : GwCreatePR(u, t, repo, n, src, tgt, id)

DoGwApprovePR ==
    \E u \in UserIDs, t \in TeamNames, n \in PRNames, fails \in BOOLEAN : GwApprovePR(u, t, n, fails)

NextGw == DoGwCreateTeam \/ DoGwInitRepository \/ DoGwPush \/ DoGwCreatePR \/ DoGwApprovePR

SpecGw == InitGw /\ [][NextGw]_vars

(***************************************************************************)
(* The gateway with every team-scoped operation, two teams and users that  *)
(* are unknown, inactive or of another team                                *)
(***************************************************************************)
InitGwOps == teams = {} /\ maxCount = 1 /\ EmptyTables

OpsTeamNames == {"alpha", "beta"}

\* the team the requests name
OpsReqTeams == {"alpha"}

\* u1 and u2 form team alpha, u3 is team beta, u4 is never registered
OpsMembers(t) == IF t = "alpha" THEN {"u1", "u2"} ELSE {"u3"}

OpsUsers == {"u1", "u2", "u3", "u4"}

OpsToggled == {"u2"}

OpsBranches == {"feat"}

\* a PR is opened from the branch or from the root itself
OpsSources == {"feat", "svc"}

OpsTargets == {"svc"}

DoOpsCreateTeam == \E t \in OpsTeamNames : GwCreateTeam(t, OpsMembers(t))

DoOpsSetUserActive == \E u \in OpsToggled, isActive \in BOOLEAN : SetUserActive(u, isActive)

\* the repository is initialised once; a request that is refused comes at any time
DoOpsInitRepository ==
    \E u \in OpsUsers, t \in OpsReqTeams, repo \in RepoNames, code \in Codes :
        /\ commits = <<>> \/ verifyUserAccess(u, t) # "OK"
        /\ GwInitRepository(u, t, repo, "main", code)

DoOpsPush ==
    \E u \in OpsUsers, t \in OpsReqTeams, repo \in RepoNames, code \in Codes :
        \E p \in OpsTargets, n \in OpsBranches : GwPush(u, t, repo, p, n, code)

DoOpsCheckout ==
    \E u \in OpsUsers, t \in OpsReqTeams, repo \in RepoNames, n \in OpsSources :
        GwCheckout(u, t, repo, n)

DoOpsCreatePR ==
    \E u \in OpsUsers, t \in OpsReqTeams, repo \in RepoNames, n \in PRNames, id \in GwPRIDs :
        \E src \in OpsSources, tgt \in OpsTargets : GwCreatePR(u, t, repo, n, src, tgt, id)

DoOpsApprovePR ==
    \E u \in OpsUsers, t \in OpsReqTeams, n \in PRNames : GwApprovePR(u, t, n, FALSE)

DoOpsRejectPR ==
    \E u \in OpsUsers, t \in OpsReqTeams, n \in PRNames : GwRejectPR(u, t, n)

DoOpsGetPRCode ==
    \E u \in OpsUsers, t \in OpsReqTeams, n \in PRNames : GwGetPRCode(u, t, n)

NextGwOps ==
    \/ DoOpsCreateTeam
    \/ DoOpsSetUserActive
    \/ DoOpsInitRepository
    \/ DoOpsPush
    \/ DoOpsCheckout
    \/ DoOpsCreatePR
    \/ DoOpsApprovePR
    \/ DoOpsRejectPR
    \/ DoOpsGetPRCode

SpecGwOps == InitGwOps /\ [][NextGwOps]_vars

(***************************************************************************)
(* The gateway's Push and Checkout with two code values, so that the bytes *)
(* a checkout returns can be told from the bytes of another commit.        *)
(***************************************************************************)
CodeMembers == {"u1", "u2"}

\* the names pushed: a branch name and the name of the repository itself
CodeNames == {"feat"} \cup RepoNames

DoCodeCreateTeam == \E t \in TeamNames : GwCreateTeam(t, CodeMembers)

DoCodeInitRepository ==
    \E u \in GwAuthors, t \in TeamNames, repo \in RepoNames, code \in Codes :
        commits = <<>> /\ GwInitRepository(u, t, repo, "main", code)

DoCodePush ==
    \E u \in GwAuthors, t \in TeamNames, repo \in RepoNames, code \in MergeCodes :
        \E p \in {"main"} \cup CodeNames, n \in CodeNames : GwPush(u, t, repo, p, n, code)

DoCodeCheckout ==
    \E u \in CodeMembers, t \in TeamNames, repo \in RepoNames, n \in {"main"} \cup CodeNames :
        GwCheckout(u, t, repo, n)

NextGwCode == DoCodeCreateTeam \/ DoCodeInitRepository \/ DoCodePush \/ DoCodeCheckout

SpecGwCode == InitGwOps /\ [][NextGwCode]_vars

(***************************************************************************)
(* The gateway with a team whose name starts with "pr-", next to a team    *)
(* whose name does not.                                                    *)
(***************************************************************************)
PrScopeTeams == {"alpha"} \cup PrTeamNames

DoPrCreateTeam == \E t \in PrScopeTeams : GwCreateTeam(t, GwMembers)

DoPrInitRepository ==
    \E u \in GwAuthors, t \in PrScopeTeams, repo \in RepoNames, code \in Codes :
        commits = <<>> /\ GwInitRepository(u, t, repo, "main", code)

DoPrPush ==
    \E u \in GwAuthors, t \in PrScopeTeams, repo \in RepoNames, code \in Codes :
        \E p \in {"main"}, n \in GwSources : GwPush(u, t, repo, p, n, code)

DoPrCreatePR ==
    \E u \in GwAuthors, t \in PrScopeTeams, repo \in RepoNames, n \in PRNames, id \in GwPRIDs :
        \E src \in GwSources, tgt \in {"main"} : GwCreatePR(u, t, repo, n, src, tgt, id)

DoPrApprovePR ==
    \E u \in UserIDs, t \in PrScopeTeams, n \in PRNames : GwApprovePR(u, t, n, FALSE)

DoPrRejectPR ==
    \E u \in UserIDs, t \in PrScopeTeams, n \in PRNames : GwRejectPR(u, t, n)

NextGwPr ==
    \/ DoPrCreateTeam
    \/ DoPrInitRepository
    \/ DoPrPush
    \/ DoPrCreatePR
    \/ DoPrApprovePR
    \/ DoPrRejectPR

SpecGwPr == InitGwOps /\ [][NextGwPr]_vars


(***************************************************************************)
(* The gateway with CreatePR and ApprovePR overlapping                     *)
(***************************************************************************)
DoGwRaceCreateTeam == \E t \in TeamNames : GwCreateTeam(t, GwMembers)

DoGwRaceInitRepository ==
    \E u \in GwAuthors, t \in TeamNames, repo \in RepoNames, code \in Codes :
        GwInitRepository(u, t, repo, "main", code)

DoGwRacePush ==
    \E u \in GwAuthors, t \in TeamNames, repo \in RepoNames, code \in Codes :
        \E p \in RepoNames, n \in GwSources : GwPush(u, t, repo, p, n, code)

DoGwCreatePRBegin ==
    \E r \in Requests, u \in GwAuthors, t \in TeamNames, repo \in RepoNames, n \in PRNames :
        \E id \in PRIDs, src \in GwSources, tgt \in RepoNames :
            GwCreatePRBegin(r, u, t, repo, n, src, tgt, id)

DoGwCreatePREnd == \E r \in Requests : GwCreatePREnd(r)

DoGwApproveBegin ==
    \E r \in Requests, u \in GwMembers, t \in TeamNames, n \in PRNames : GwApproveBegin(r, u, t, n)

DoGwApproveEnd == \E r \in Requests : GwApproveEnd(r)

NextGwRace ==
    \/ DoGwRaceCreateTeam
    \/ DoGwRaceInitRepository
    \/ DoGwRacePush
    \/ DoGwCreatePRBegin
    \/ DoGwCreatePREnd
    \/ DoGwApproveBegin
    \/ DoGwApproveEnd
    \/ GwFatal

SpecGwRace == InitGwOps /\ [][NextGwRace]_vars

(***************************************************************************)
(* The gateway with two pull requests under one name                       *)
(***************************************************************************)
\* the uuid of the second CreatePR differs from the first
MetaPRIDs == {"pr-1", "pr-2"}

DoMetaCreateTeam == \E t \in TeamNames : GwCreateTeam(t, GwMembers)

DoMetaInitRepository ==
    \E u \in GwAuthors, t \in TeamNames, repo \in RepoNames, code \in Codes :
        GwInitRepository(u, t, repo, "main", code)

DoMetaPush ==
    \E u \in GwAuthors, t \in TeamNames, repo \in RepoNames, code \in Codes :
        \E p \in RepoNames, n \in GwBranches : GwPush(u, t, repo, p, n, code)

DoMetaCreatePR ==
    \E u \in GwAuthors, t \in TeamNames, repo \in RepoNames, n \in PRNames, id \in MetaPRIDs :
        \E src \in GwBranches, tgt \in RepoNames : GwCreatePR(u, t, repo, n, src, tgt, id)

DoMetaApprovePR ==
    \E u \in GwMembers, t \in TeamNames, n \in PRNames : GwApprovePR(u, t, n, FALSE)

DoMetaRejectPR == \E u \in GwMembers, t \in TeamNames, n \in PRNames : GwRejectPR(u, t, n)

DoMetaGetPRCode == \E u \in GwMembers, t \in TeamNames, n \in PRNames : GwGetPRCode(u, t, n)

NextGwMeta ==
    \/ DoMetaCreateTeam
    \/ DoMetaInitRepository
    \/ DoMetaPush
    \/ DoMetaCreatePR
    \/ DoMetaApprovePR
    \/ DoMetaRejectPR
    \/ DoMetaGetPRCode

SpecGwMeta == InitGwOps /\ [][NextGwMeta]_vars


(***************************************************************************)
(* Properties of the commit DAG engine                                     *)
(***************************************************************************)

\* the commits of table cs that list c among their parents
ChildrenIn(cs, c) == {x \in DOMAIN cs : \E i \in DOMAIN cs[x].parents : cs[x].parents[i] = c}

\* a and b are commits of repository (t, r)
InRepo(t, r, c) == c \in DOMAIN commits /\ commits[c].team = t /\ commits[c].root = r

\* C6: in every reachable state and for every request, Merge(a, b) succeeds only if
\* neither a nor b has a child; with a and b commits of the repository and one of
\* them not a leaf it fails with COMMIT_NOT_LEAF and creates no commit; after a
\* successful merge a and b have a child and the new merge commit has none.
C6_MergeLeafRule ==
    \A t \in TeamIDs, r \in KnownIDs, a \in KnownIDs, b \in KnownIDs :
        \A res \in {ServiceMerge(t, r, a, b)} :
            /\ res.err = "OK" =>
                  /\ ChildrenIn(commits, a) = {} /\ ChildrenIn(commits, b) = {}
                  /\ Len(res.commits) = Len(commits) + 1
                  /\ res.id = Len(res.commits)
                  /\ res.commits[res.id].parents = <<a, b>>
                  /\ ChildrenIn(res.commits, a) = {res.id}
                  /\ ChildrenIn(res.commits, b) = {res.id}
                  /\ ChildrenIn(res.commits, res.id) = {}
            /\ ( /\ t \in teams /\ InRepo(t, r, r) /\ InRepo(t, r, a) /\ InRepo(t, r, b)
                 /\ (ChildrenIn(commits, a) # {} \/ ChildrenIn(commits, b) # {}) ) =>
                  res.err = "COMMIT_NOT_LEAF" /\ res.commits = commits

\* a merge of two different leaves has succeeded
C6_Witness ==
    /\ resp.op = "Merge" /\ resp.err = "OK"
    /\ resp.id \in DOMAIN commits
    /\ Len(commits[resp.id].parents) = 2
    /\ commits[resp.id].parents[1] # commits[resp.id].parents[2]

ParentSet(c) ==
    IF c \in DOMAIN commits
    THEN {commits[c].parents[i] : i \in DOMAIN commits[c].parents}
    ELSE {}

RECURSIVE ReachUp(_, _)
ReachUp(S, n) == IF n = 0 THEN S ELSE ReachUp(S \cup UNION {ParentSet(x) : x \in S}, n - 1)

\* every commit reached from c along parent edges
Ancestors(c) == ReachUp(ParentSet(c), Len(commits))

\* C7: the parent relation is acyclic: no commit is its own ancestor.
C7_Acyclic == \A c \in DOMAIN commits : c \notin Ancestors(c)

\* a merge commit above two pushed commits: three ancestors and two paths to the root
C7_Witness ==
    \E c \in DOMAIN commits :
        /\ Cardinality(ParentSet(c)) = 2
        /\ Cardinality(Ancestors(c)) = 3

\* C8: every (team, root) class has its root commit, with id = root and no parents,
\* and every other commit of the class has 1 or 2 parents, all existing commits of
\* the same (team, root).
C8_RootAndParents ==
    \A c \in DOMAIN commits :
        LET row == commits[c]
        IN  /\ row.root \in DOMAIN commits
            /\ commits[row.root].root = row.root
            /\ commits[row.root].team = row.team
            /\ commits[row.root].parents = <<>>
            /\ c # row.root =>
                  /\ Len(row.parents) \in {1, 2}
                  /\ \A i \in DOMAIN row.parents :
                        /\ row.parents[i] \in DOMAIN commits
                        /\ commits[row.parents[i]].team = row.team
                        /\ commits[row.parents[i]].root = row.root

\* two repositories, one of them holding a pushed commit and a merge commit
C8_Witness ==
    /\ Cardinality({c \in DOMAIN commits : commits[c].root = c}) = 2
    /\ \E c \in DOMAIN commits : Len(commits[c].parents) = 1
    /\ \E c \in DOMAIN commits : Len(commits[c].parents) = 2

\* the commit a name resolves to in table ns
LookupIn(ns, t, r, n) == {row.commit : row \in {x \in ns : x.team = t /\ x.root = r /\ x.name = n}}

\* C9: InitRepository and Push write the commit and its name binding atomically: on
\* an error no commit is added (so no parent loses its leaf status), and on success
\* with a name the name resolves to the new commit.
C9_AtomicNameBinding ==
    [][ /\ resp'.op = "InitRepository" =>
           \A t \in TeamIDs, n \in CommitNames, code \in Codes :
              InitRepository(t, n, code) =>
                  /\ resp'.err # "OK" => commits' = commits
                  /\ (resp'.err = "OK" /\ n # "") => LookupIn(names', t, resp'.id, n) = {resp'.id}
        /\ resp'.op = "Push" =>
           \A t \in TeamIDs, r \in KnownIDs, p \in KnownIDs, n \in CommitNames, code \in Codes :
              Push(t, r, p, n, code) =>
                  /\ resp'.err # "OK" => commits' = commits
                  /\ (resp'.err = "OK" /\ n # "") => LookupIn(names', t, r, n) = {resp'.id}
      ]_vars

\* C10: a (team, root, name) triple is bound to at most one commit, a commit has at
\* most one name, and looking up the name of a named commit gives the commit back.
C10_NameUniqueness ==
    /\ \A x \in names, y \in names :
          /\ (x.team = y.team /\ x.root = y.root /\ x.name = y.name) => x.commit = y.commit
          /\ x.commit = y.commit => x = y
    /\ \A c \in DOMAIN commits :
          CommitRows(c) # {} =>
              GetCommitIDByName(commits[c].team, commits[c].root, GetCommitName(c)) = c

\* the same name is bound in two repositories and a third binding of it was refused
C10_Witness ==
    /\ Cardinality(names) = 2
    /\ resp.op = "Push" /\ resp.err = "INTERNAL_ERROR"

(***************************************************************************)
(* Properties of the allocation service                                    *)
(***************************************************************************)
Assigned(pr) == {pr.reviewers[i] : i \in DOMAIN pr.reviewers}

Approvers(pr) == {pr.approved[i] : i \in DOMAIN pr.approved}

\* C1: a PR goes from OPEN to MERGED only while every assigned reviewer is in
\* approved_by, and MergePR on an OPEN PR with an assigned reviewer who has not
\* approved answers NOT_ALL_APPROVED and leaves the status OPEN.
C1_MergeGate ==
    [][ \A id \in PRIDs :
          /\ ( /\ id \in DOMAIN prs /\ id \in DOMAIN prs'
               /\ prs[id].status = "OPEN" /\ prs'[id].status = "MERGED" )
             => Assigned(prs[id]) \subseteq Approvers(prs[id])
          /\ ( /\ MergePR(id) \/ AltMergePR(id)
               /\ id \in DOMAIN prs
               /\ prs[id].status = "OPEN"
               /\ ~ (Assigned(prs[id]) \subseteq Approvers(prs[id])) )
             => aresp'.err = "NOT_ALL_APPROVED" /\ prs'[id].status = "OPEN"
      ]_vars

(***************************************************************************)
(* Properties of the gateway's approve-and-merge sequence                  *)
(***************************************************************************)
ExpectedCalls == <<"ApprovePR", "Merge", "MergePR">>

CallNames(calls) == [i \in DOMAIN calls |-> calls[i].call]

IsPrefix(s, t) == Len(s) <= Len(t) /\ s = SubSeq(t, 1, Len(s))

HasMeta(t, n) == <<t, n>> \in DOMAIN prMetadata

MetaOf(t, n) == metas[prMetadata[<<t, n>>]]

\* the PR whose id key shares the PRMetadata of (team, pr name)
PROf(t, n) ==
    CHOOSE id \in PRIDs : <<id>> \in DOMAIN prMetadata /\ prMetadata[<<id>>] = prMetadata[<<t, n>>]

AllApprovedIn(ps, id) == Assigned(ps[id]) \subseteq Approvers(ps[id])

\* the commits whose parents are exactly [source, target] of the PR
MergesOf(cs, meta) ==
    {c \in DOMAIN cs : cs[c].parents = <<meta.sourceCommit, meta.targetCommit>>}

NamesOf(c) == {row.name : row \in {x \in names : x.commit = c}}

\* C2: main initialised, feat and fix pushed onto main, a PR from feat to main
\* whose sole reviewer approves through the gateway: the approve request
\* creates a merge commit with parents [feat, main] and the PR ends MERGED.
C2_ApproveAndMerge ==
    [][ gresp'.op = "ApprovePR" =>
        (\A u \in UserIDs, t \in TeamNames, n \in PRNames :
              ( /\ GwApprovePR(u, t, n, FALSE)
                /\ HasMeta(t, n)
                /\ prs[PROf(t, n)].status = "OPEN"
                /\ prs[PROf(t, n)].reviewers = <<u>>
                /\ MetaOf(t, n).targetCommit = MetaOf(t, n).rootCommit
                /\ "main" \in NamesOf(MetaOf(t, n).targetCommit)
                /\ "feat" \in NamesOf(MetaOf(t, n).sourceCommit)
                /\ commits[MetaOf(t, n).sourceCommit].parents = <<MetaOf(t, n).targetCommit>>
                /\ \E c \in DOMAIN commits :
                      "fix" \in NamesOf(c) /\ commits[c].parents = <<MetaOf(t, n).targetCommit>> )
              => /\ gresp'.err = "OK"
                 /\ gresp'.mergeCommit \in (DOMAIN commits') \ (DOMAIN commits)
                 /\ commits'[gresp'.mergeCommit].parents =
                       <<MetaOf(t, n).sourceCommit, MetaOf(t, n).targetCommit>>
                 /\ prs'[PROf(t, n)].status = "MERGED" )
      ]_vars

\* C3: one approve request calls ApprovePR, then Merge, then MergePR; Merge is
\* called only after ApprovePR answered all_approved = true; when it answered
\* all_approved = false the PR is returned still OPEN, without a merge commit,
\* and the DAG gets no commit.
C3_ApproveOrder ==
    [][ gresp'.op = "ApprovePR" =>
        (\A u \in UserIDs, t \in TeamNames, n \in PRNames, fails \in BOOLEAN :
              GwApprovePR(u, t, n, fails) =>
                 /\ IsPrefix(CallNames(gresp'.calls), ExpectedCalls)
                 /\ Len(gresp'.calls) >= 2 =>
                       /\ gresp'.calls[1].err = "OK"
                       /\ AllApprovedIn(prs', PROf(t, n))
                 /\ ( /\ Len(gresp'.calls) >= 1
                      /\ gresp'.calls[1].err = "OK"
                      /\ ~ AllApprovedIn(prs', PROf(t, n)) ) =>
                       /\ Len(gresp'.calls) = 1
                       /\ gresp'.err = "OK"
                       /\ gresp'.status = "OPEN"
                       /\ gresp'.mergeCommit = NoCommit
                       /\ commits' = commits
                       /\ prs'[PROf(t, n)].status = "OPEN" )
      ]_vars

\* both reviewers of a PR approved one after the other, and only the second
\* approve request merged: one merge commit, PR MERGED, the three calls in order
C3_Witness ==
    /\ gresp.op = "ApprovePR"
    /\ gresp.err = "OK"
    /\ CallNames(gresp.calls) = ExpectedCalls
    /\ gresp.pr \in DOMAIN prs
    /\ Len(prs[gresp.pr].reviewers) = 2
    /\ Len(prs[gresp.pr].approved) = 2
    /\ prs[gresp.pr].status = "MERGED"
    /\ Cardinality({c \in DOMAIN commits : Len(commits[c].parents) = 2}) = 1

\* C4 (as stated): Merge succeeded and MergePR failed: the PR stays OPEN with
\* an orphan merge commit, and the same approve request sent again merges again
\* and leaves a second merge commit for the same (source, target).
C4_RetryRemerges ==
    [][ gresp'.op = "ApprovePR" =>
        (\A u \in UserIDs, t \in TeamNames, n \in PRNames :
              ( /\ GwApprovePR(u, t, n, FALSE)
                /\ HasMeta(t, n)
                /\ prs[PROf(t, n)].status = "OPEN"
                /\ u \in Approvers(prs[PROf(t, n)])
                /\ AllApprovedIn(prs, PROf(t, n))
                /\ MetaOf(t, n).sourceCommit # MetaOf(t, n).targetCommit
                /\ Cardinality(MergesOf(commits, MetaOf(t, n))) = 1 )
              => Cardinality(MergesOf(commits', MetaOf(t, n))) = 2 )
      ]_vars

\* C4 (amended): Merge succeeded and MergePR failed: the PR stays OPEN with an
\* orphan merge commit; from then on source and target are not leaves, so the
\* same approve request sent again is refused by Merge with COMMIT_NOT_LEAF,
\* adds no commit and leaves the PR OPEN.
C4_OrphanThenRefused ==
    [][ gresp'.op = "ApprovePR" =>
        (\A u \in UserIDs, t \in TeamNames, n \in PRNames, fails \in BOOLEAN :
              GwApprovePR(u, t, n, fails) =>
                 /\ ( /\ Len(gresp'.calls) = 3
                      /\ gresp'.calls[2].err = "OK"
                      /\ gresp'.calls[3].err # "OK" ) =>
                       /\ prs'[PROf(t, n)].status = "OPEN"
                       /\ Len(commits') = Len(commits) + 1
                       /\ MergesOf(commits', MetaOf(t, n)) = {Len(commits')}
                 /\ ( /\ HasMeta(t, n)
                      /\ MergesOf(commits, MetaOf(t, n)) # {} ) =>
                       /\ commits' = commits
                       /\ prs'[PROf(t, n)].status = prs[PROf(t, n)].status
                       /\ Len(gresp'.calls) >= 2 =>
                             /\ Len(gresp'.calls) = 2
                             /\ gresp'.calls[2].err = "COMMIT_NOT_LEAF" )
      ]_vars

\* the approve request was sent again after an orphan merge of two distinct
\* commits: Merge refused it, the PR is OPEN and fully approved
C4_Witness ==
    /\ gresp.op = "ApprovePR"
    /\ Len(gresp.calls) = 2
    /\ gresp.calls[2].err = "COMMIT_NOT_LEAF"
    /\ HasMeta("alpha", "p1")
    /\ MetaOf("alpha", "p1").sourceCommit # MetaOf("alpha", "p1").targetCommit
    /\ Cardinality(MergesOf(commits, MetaOf("alpha", "p1"))) = 1
    /\ prs[PROf("alpha", "p1")].status = "OPEN"
    /\ AllApprovedIn(prs, PROf("alpha", "p1"))

\* C5: when Merge fails in an approve request, MergePR is not called, the PR
\* stays OPEN with every approval recorded so far, this one included, and the
\* reviewer is still entitled to approve again.
C5_MergeFailureKeepsApprovals ==
    [][ gresp'.op = "ApprovePR" =>
        (\A u \in UserIDs, t \in TeamNames, n \in PRNames, fails \in BOOLEAN :
              ( /\ GwApprovePR(u, t, n, fails)
                /\ Len(gresp'.calls) >= 2
                /\ gresp'.calls[2].err # "OK" ) =>
                 /\ Len(gresp'.calls) = 2
                 /\ gresp'.err # "OK"
                 /\ commits' = commits
                 /\ prs'[PROf(t, n)].status = "OPEN"
                 /\ Approvers(prs[PROf(t, n)]) \cup {u} \subseteq Approvers(prs'[PROf(t, n)])
                 /\ u \in Assigned(prs'[PROf(t, n)]) )
      ]_vars

\* the first approval of a PR from feat to its parent: Merge refused it
C5_Witness ==
    /\ gresp.op = "ApprovePR"
    /\ gresp.err = "failed to merge"
    /\ Len(gresp.calls) = 2
    /\ gresp.calls[2].err = "COMMIT_NOT_LEAF"
    /\ HasMeta("alpha", "p1")
    /\ Cardinality(MergesOf(commits, MetaOf("alpha", "p1"))) = 0
    /\ prs[PROf("alpha", "p1")].status = "OPEN"
    /\ Len(prs[PROf("alpha", "p1")].approved) >= 1


(***************************************************************************)
(* Claims about the commit DAG engine, continued                           *)
(***************************************************************************)

\* C11: a Push that passes the team, root and parent checks and carries a name
\* already bound in the same (team, root) is answered COMMIT_NAME_EXISTS.
C11_NameExistsKind ==
    [][ resp'.op = "Push" =>
           \A t \in TeamIDs, r \in KnownIDs, p \in KnownIDs, n \in CommitNames, code \in Codes :
              ( /\ Push(t, r, p, n, code)
                /\ TeamExists(t) /\ RootCommitExists(t, r) /\ CommitRowExists(t, r, p)
                /\ n # "" /\ NameRows(t, r, n) # {} )
              => resp'.err = "COMMIT_NAME_EXISTS"
      ]_vars

\* C12: a successful Merge(a, b) stores a commit whose parents are <<a, b>> in this
\* order and whose code is the code of a: Checkout of the merge commit succeeds
\* and returns what Checkout of a returns.
C12_MergeParentsAndCode ==
    [][ (resp'.op = "Merge" /\ resp'.err = "OK") =>
           \A t \in TeamIDs, r \in KnownIDs, a \in KnownIDs, b \in KnownIDs :
              Merge(t, r, a, b) =>
                  \E m \in KnownIDs :
                      /\ m = resp'.id /\ m \notin DOMAIN commits
                      /\ commits'[m].parents = <<a, b>>
                      /\ ServiceCheckout(t, r, m)'.err = "OK"
                      /\ ServiceCheckout(t, r, m)' = ServiceCheckout(t, r, a)'
      ]_vars

\* a merge whose two parents hold different code has been stored
C12_Witness ==
    /\ resp.op = "Merge" /\ resp.err = "OK"
    /\ Len(commits[resp.id].parents) = 2
    /\ commits[commits[resp.id].parents[1]].code # commits[commits[resp.id].parents[2]].code
    /\ ServiceCheckout(commits[resp.id].team, commits[resp.id].root, resp.id).code
          = commits[commits[resp.id].parents[1]].code

(***************************************************************************)
(* Claims about the allocation service at the repository root              *)
(***************************************************************************)

\* C13: in every state reached by CreateTeam, SetUserActive, CreatePR,
\* ReassignReviewer and MergePR, no pull request has its author among its
\* assigned reviewers.
C13_AuthorNotReviewer ==
    \A id \in DOMAIN prs : ~ IsAssigned(prs[id], prs[id].author)

\* a reviewer of a pull request has been replaced and the author now belongs to
\* another team than the replacement
C13_Witness ==
    /\ aresp.op = "ReassignReviewer" /\ aresp.err = "OK"
    /\ \E i \in DOMAIN prs[aresp.pr].reviewers :
          users[prs[aresp.pr].reviewers[i]].team # users[prs[aresp.pr].author].team

\* the active members of the author's team other than the author
ActiveTeammates(authorID) ==
    {u \in DOMAIN users : /\ users[u].team = users[authorID].team
                          /\ users[u].active
                          /\ u # authorID}

\* C14: a successful CreatePR stores the pull request with status OPEN and with
\* exactly min(|C|, 2) pairwise distinct reviewers, all of them from C, the active
\* members of the author's team other than the author.
C14_CreatePRAssigns ==
    [][ (aresp'.op = "CreatePR" /\ aresp'.err = "OK") =>
           \A id \in AltPRIDs, authorID \in AltUserIDs :
              CreatePR(id, authorID) =>
                  LET rs == prs'[id].reviewers
                  IN  /\ id \notin DOMAIN prs
                      /\ prs'[id].status = "OPEN"
                      /\ prs'[id].author = authorID
                      /\ Len(rs) = Min(Cardinality(ActiveTeammates(authorID)), 2)
                      /\ \A i, j \in DOMAIN rs : i # j => rs[i] # rs[j]
                      /\ \A i \in DOMAIN rs : rs[i] \in ActiveTeammates(authorID)
      ]_vars

\* a pull request was created with two reviewers out of three candidates
C14_Witness ==
    /\ aresp.op = "CreatePR" /\ aresp.err = "OK"
    /\ Len(prs[aresp.pr].reviewers) = 2
    /\ Cardinality(ActiveTeammates(prs[aresp.pr].author)) = 3

\* C15: CreatePR with the id of a stored pull request fails with PR_EXISTS, and
\* with a new id and an author that is unknown or has no team it fails with
\* NOT_FOUND; a failed CreatePR creates nothing and leaves the stored pull
\* requests as they were.
C15_CreatePRErrors ==
    [][ aresp'.op = "CreatePR" =>
           \A id \in AltPRIDs, authorID \in AltUserIDs :
              CreatePR(id, authorID) =>
                  /\ id \in DOMAIN prs => aresp'.err = "PR_EXISTS"
                  /\ (id \notin DOMAIN prs /\ authorID \notin DOMAIN users)
                        => aresp'.err = "NOT_FOUND"
                  /\ (id \notin DOMAIN prs /\ authorID \in DOMAIN users /\ users[authorID].team = "")
                        => aresp'.err = "NOT_FOUND"
                  /\ aresp'.err # "OK" => prs' = prs
      ]_vars

\* a CreatePR for the id of a stored pull request with reviewers was refused
C15_Witness ==
    /\ aresp.op = "CreatePR" /\ aresp.err = "PR_EXISTS"
    /\ aresp.pr \in DOMAIN prs
    /\ prs[aresp.pr].reviewers # <<>>

\* C16: MergePR of a pull request that is already MERGED succeeds, returns the
\* pull request with the merged_at it had, and writes nothing.
C16_MergeIdempotent ==
    [][ aresp'.op = "MergePR" =>
           \A id \in AltPRIDs :
              (AltMergePR(id) /\ id \in DOMAIN prs /\ prs[id].status = "MERGED") =>
                  /\ aresp'.err = "OK"
                  /\ prs[id].mergedAt # NoTime
                  /\ prs'[id].mergedAt = prs[id].mergedAt
                  /\ prs' = prs
                  /\ clock' = clock
      ]_vars

\* MergePR answered OK for a pull request that carries the time of its merge
C16_Witness ==
    /\ aresp.op = "MergePR" /\ aresp.err = "OK"
    /\ prs[aresp.pr].status = "MERGED"
    /\ prs[aresp.pr].mergedAt = clock
    /\ clock # NoTime

\* C18: after a successful ReassignReviewer(pr, old) the old reviewer is no longer
\* assigned, the replacement stands at the position old had, the list has the
\* length it had and is otherwise as it was, and the replacement was, in the state
\* of the choice, an active member of old's team, not the author and not assigned.
C18_ReassignSound ==
    [][ (aresp'.op = "ReassignReviewer" /\ aresp'.err = "OK") =>
           \A id \in AltPRIDs, oldID \in AltUserIDs :
              AltReassignReviewer(id, oldID) =>
                  LET before == prs[id].reviewers
                      after == prs'[id].reviewers
                  IN  /\ ~ IsAssigned(prs'[id], oldID)
                      /\ Len(after) = Len(before)
                      /\ \E i \in DOMAIN before :
                            /\ before[i] = oldID
                            /\ \A j \in DOMAIN before : j # i => after[j] = before[j]
                            /\ after[i] \in DOMAIN users
                            /\ users[after[i]].active
                            /\ users[after[i]].team = users[oldID].team
                            /\ after[i] # prs[id].author
                            /\ ~ IsAssigned(prs[id], after[i])
      ]_vars

\* the second of two reviewers has been replaced by a user of another team than
\* the author's
C18_Witness ==
    /\ aresp.op = "ReassignReviewer" /\ aresp.err = "OK"
    /\ Len(prs[aresp.pr].reviewers) = 2
    /\ users[prs[aresp.pr].reviewers[2]].team # users[prs[aresp.pr].author].team
    /\ users[prs[aresp.pr].reviewers[1]].team = users[prs[aresp.pr].author].team

\* the candidate pool of a reassignment as the protocol states it
Pool(pr, oldID) ==
    {u \in DOMAIN users : /\ users[u].active
                          /\ users[u].team = users[oldID].team
                          /\ u # pr.author
                          /\ \A i \in DOMAIN pr.reviewers : pr.reviewers[i] # u}

C17_MergedTerminal ==
    [][ \A id \in DOMAIN prs :
           prs[id].status = "MERGED" =>
               /\ id \in DOMAIN prs'
               /\ prs'[id].status = "MERGED"
               /\ prs'[id].reviewers = prs[id].reviewers
               /\ (aresp'.op = "ReassignReviewer" /\ aresp'.pr = id) => aresp'.err = "PR_MERGED"
      ]_vars

\* ReassignReviewer was refused for a merged pull request although one of its
\* reviewers had a replacement candidate
C17_Witness ==
    /\ aresp.op = "ReassignReviewer" /\ aresp.err = "PR_MERGED"
    /\ prs[aresp.pr].status = "MERGED"
    /\ \E i \in DOMAIN prs[aresp.pr].reviewers :
          ReassignCandidates(prs[aresp.pr], prs[aresp.pr].reviewers[i]) # {}

\* C20: in every reachable state the approvals of a pull request are approvals of
\* assigned reviewers: approved_by is a subset of assigned_reviewers, also after a
\* ReassignReviewer that replaces a reviewer who had approved and after a bulk
\* deactivation that drops reviewers.
C20_ApprovedSubset ==
    \A id \in DOMAIN prs :
        \A i \in DOMAIN prs[id].approved : IsAssigned(prs[id], prs[id].approved[i])

\* C21: a pull request created while its author has no other active teammate is
\* stored with an empty list of assigned reviewers, and MergePR on an open pull
\* request without reviewers succeeds and sets MERGED.
C21_NoReviewersMerge ==
    [][ /\ (aresp'.op = "CreatePR" /\ aresp'.err = "OK") =>
              \A id \in AllocPRIDs, authorID \in AllocAuthors :
                  (CreatePR(id, authorID) /\ ActiveTeammates(authorID) = {})
                      => prs'[id].reviewers = <<>> /\ prs'[id].status = "OPEN"
        /\ aresp'.op = "MergePR" =>
              \A id \in AllocPRIDs :
                  ( /\ MergePR(id)
                    /\ id \in DOMAIN prs
                    /\ prs[id].status = "OPEN"
                    /\ prs[id].reviewers = <<>> )
                  => /\ aresp'.err = "OK"
                     /\ prs'[id].status = "MERGED"
                     /\ prs'[id].mergedAt # NoTime
      ]_vars

\* a pull request without reviewers and without approvals has been merged
C21_Witness ==
    /\ aresp.op = "MergePR" /\ aresp.err = "OK"
    /\ prs[aresp.pr].status = "MERGED"
    /\ prs[aresp.pr].reviewers = <<>>
    /\ prs[aresp.pr].approved = <<>>

(***************************************************************************)
(* Claims about the gateway's team-scoped operations                       *)
(***************************************************************************)
\* a request of a team-scoped operation issued by username for teamName
TeamScopedRequest(username, teamName) ==
    \/ \E repo \in RepoNames, code \in Codes : GwInitRepository(username, teamName, repo, "main", code)
    \/ \E repo \in RepoNames, code \in Codes, p \in OpsTargets, n \in OpsBranches :
          GwPush(username, teamName, repo, p, n, code)
    \/ \E repo \in RepoNames, n \in OpsSources : GwCheckout(username, teamName, repo, n)
    \/ \E repo \in RepoNames, n \in PRNames, id \in GwPRIDs, src \in OpsSources, tgt \in OpsTargets :
          GwCreatePR(username, teamName, repo, n, src, tgt, id)
    \/ \E n \in PRNames : GwApprovePR(username, teamName, n, FALSE)
    \/ \E n \in PRNames : GwRejectPR(username, teamName, n)
    \/ \E n \in PRNames : GwGetPRCode(username, teamName, n)

\* C22: every team-scoped operation of the gateway issued by a user who is
\* missing, inactive or of another team answers USER_NOT_FOUND, USER_INACTIVE
\* or ACCESS_DENIED respectively, and creates or changes no commit, pull
\* request, approval or gateway mapping.
C22_AccessCheckedFirst ==
    [][ \A u \in OpsUsers, t \in OpsReqTeams :
            (verifyUserAccess(u, t) # "OK" /\ TeamScopedRequest(u, t))
                => /\ gresp'.err = verifyUserAccess(u, t)
                   /\ UNCHANGED <<commits, names, prs, repoRootCommits, metas, prMetadata>>
      ]_vars

\* the commit a name stands for in repository repoName whose cached root is root
NamedCommits(t, root, repoName, n) ==
    IF n = repoName THEN {root} ELSE {row.commit : row \in NameRows(t, root, n)}

ApprovalsAnswered(id) ==
    {r \in DOMAIN inflight :
        /\ inflight[r].op = "ApprovePR" /\ inflight[r].pr = id
        /\ inflight[r].pc = "done" /\ inflight[r].err = "OK"}

\* C24: approvals and reassignments of one pull request are serialized: once
\* every assigned reviewer of an OPEN pull request has approved, overlapping or
\* not, no approval is lost and at least one answer carries all_approved = true.
C24_ApprovalsSerialized ==
    \A id \in DOMAIN prs :
        ( /\ prs[id].status = "OPEN"
          /\ prs[id].reviewers # <<>>
          /\ \A i \in DOMAIN prs[id].reviewers :
                \E r \in ApprovalsAnswered(id) : inflight[r].user = prs[id].reviewers[i] )
        => /\ \A r \in ApprovalsAnswered(id) : HasApproved(prs[id], inflight[r].user)
           /\ \E r \in ApprovalsAnswered(id) : inflight[r].allApproved

\* the MergePR requests on pull request id that have been answered with success
MergesAnswered(id) ==
    {r \in DOMAIN inflight :
        /\ inflight[r].op = "MergePR" /\ inflight[r].pr = id
        /\ inflight[r].pc = "done" /\ inflight[r].err = "OK"}

\* C30: in every interleaving of MergePR with an overlapping ReassignReviewer on
\* the same pull request, once MergePR has answered with success the stored
\* status is MERGED in every later state: a reassignment that read the pull
\* request while it was OPEN does not write status OPEN back.
C30_MergedStaysMerged ==
    \A id \in DOMAIN prs : MergesAnswered(id) # {} => prs[id].status = "MERGED"

\* C25: the gateway's process-local PR-metadata map is accessed under a
\* reader-writer discipline: in no interleaving does a CreatePR write the map
\* while another handler reads or writes it.
C25_MapGuarded == ~ MapRace

\* the keys fmt.Sprintf("%s:%s", teamName, prName) of the metadata map
NameKeys == {key \in DOMAIN prMetadata : Len(key) = 2}

\* C26: a PRMetadata entry stored by the gateway's CreatePR under
\* (team_name, pr_name) is never changed afterwards by any operation of the
\* gateway (CreatePR, approve, reject, get-code).
C26_MetadataWriteOnce ==
    [][ \A key \in NameKeys :
            /\ key \in DOMAIN prMetadata'
            /\ prMetadata'[key] = prMetadata[key]
            /\ metas'[prMetadata'[key]] = metas[prMetadata[key]]
      ]_vars

(***************************************************************************)
(* Claims about team creation                                              *)
(***************************************************************************)
\* C27: a CreateTeam whose name is taken fails with TEAM_EXISTS and changes no
\* team and no user; a CreateTeam that fails part-way persists neither the team
\* nor any member upsert; a CreateTeam succeeds only for a name no team has, so
\* team_name stays unique.
C27_CreateTeamAtomic ==
    [][ aresp'.op = "CreateTeam" =>
          \A t \in AltTeamNames, failAt \in FailPoints :
            \A members \in TxMemberSets(t) : \A done \in SUBSET members :
              AltCreateTeam(t, members, failAt, done) =>
                 /\ TeamExists(t) => aresp'.err = "TEAM_EXISTS" /\ UNCHANGED <<teams, users>>
                 /\ (~ TeamExists(t) /\ failAt # "none") =>
                        aresp'.err \notin {"OK", "TEAM_EXISTS"} /\ UNCHANGED <<teams, users>>
                 /\ aresp'.err = "OK" =>
                        /\ ~ TeamExists(t)
                        /\ teams' = teams \cup {t}
                        /\ \A u \in members : users'[u].team = t
      ]_vars

\* the creation of the second team failed at the upsert of a member, after the
\* first team was created: the users are still those of the first team
C27_Witness ==
    /\ aresp.op = "CreateTeam" /\ aresp.err = "failed to create user"
    /\ teams = {"alpha"}
    /\ \A u \in DOMAIN users : users[u].team = "alpha"

(***************************************************************************)
(* Claims about the bulk deactivation of a team                            *)
(***************************************************************************)
\* the users that could replace a reviewer of pr while the set U is deactivated
Replacements(pr, U) ==
    {u \in DOMAIN users :
        /\ pr.author \in DOMAIN users
        /\ users[u].team = users[pr.author].team
        /\ users[u].active
        /\ u # pr.author
        /\ u \notin U}

C29_ErrorKindPreserved ==
    ( /\ gresp.op = "ApprovePR"
      /\ gresp.calls # <<>>
      /\ \E id \in DOMAIN prs : prs[id].status = "REJECTED" )
    => handleServiceError(gresp.err) = gresp.calls[1].err

(***************************************************************************)
(* C31: overlapping Merge and Push requests                                *)
(***************************************************************************)

\* the commits inserted before commit x that list c among their parents
ChildrenBefore(x, c) == {y \in 1..(x - 1) : HasParent(y, c)}

\* C31: in every interleaving of Merge and Push requests on one repository, each
\* merge commit's two parents had no child at the instant the merge commit was
\* inserted (commit ids are positions in insertion order); so two overlapping
\* merges that name the same leaf cannot both succeed.
C31_MergeParentsWereLeaves ==
    \A x \in DOMAIN commits :
        Len(commits[x].parents) = 2 =>
            \A i \in 1..2 : ChildrenBefore(x, commits[x].parents[i]) = {}

(***************************************************************************)
(* C32: two overlapping reassignments on one pull request                  *)
(***************************************************************************)

\* request r is a ReassignReviewer on pull request id that got past its checks
Reassigning(r, id) ==
    /\ r \in DOMAIN inflight
    /\ inflight[r].op = "ReassignReviewer"
    /\ inflight[r].pr = id
    /\ inflight[r].err = "OK"

\* C32: in every interleaving of two ReassignReviewer calls on the same pull
\* request for two different old reviewers no update is lost: the UpdatePR of one
\* call changes the stored assigned_reviewers only at the position of its own old
\* reviewer, so the replacement the other call has written stays, the result
\* holds neither old reviewer and no user twice.
C32_NoLostReassignment ==
    [][ \A r \in Requests, q \in Requests, id \in DOMAIN prs :
          ( /\ r # q
            /\ Reassigning(r, id) /\ Reassigning(q, id)
            /\ inflight[r].user # inflight[q].user
            /\ inflight[r].pc = "write" /\ inflight'[r].pc = "done" )
          => \A i \in DOMAIN prs[id].reviewers :
                prs[id].reviewers[i] # inflight[r].user
                    => prs'[id].reviewers[i] = prs[id].reviewers[i] ]_vars

(***************************************************************************)
(* C33: no PR is recorded MERGED by the gateway without its merge commit   *)
(***************************************************************************)

\* the merge commits of a PR: parents exactly [source, target] of its metadata,
\* in the repository (team, root) of its metadata
MergeCommitsOf(meta) ==
    {c \in DOMAIN commits :
        /\ commits[c].team = meta.teamID
        /\ commits[c].root = meta.rootCommit
        /\ commits[c].parents = <<meta.sourceCommit, meta.targetCommit>>}

\* C33: whenever a PR has status MERGED, reached through the gateway's approve
\* path (the only path to MERGED the gateway has), the DAG holds a commit whose
\* parents are exactly [source_id, target_id] of that PR's metadata under the
\* PR's root: the gateway never records a PR as MERGED without such a commit.
C33_MergedHasMergeCommit ==
    \A id \in DOMAIN prs :
        (prs[id].status = "MERGED" /\ IDKey(id) \in DOMAIN prMetadata)
            => MergeCommitsOf(metas[prMetadata[IDKey(id)]]) # {}

\* an approval has merged a PR: Merge and MergePR were both called by the request
C33_Witness ==
    /\ gresp.op = "ApprovePR"
    /\ gresp.err = "OK"
    /\ gresp.status = "MERGED"
    /\ gresp.pr \in DOMAIN prs
    /\ prs[gresp.pr].status = "MERGED"
    /\ IDKey(gresp.pr) \in DOMAIN prMetadata
    /\ gresp.mergeCommit \in MergeCommitsOf(metas[prMetadata[IDKey(gresp.pr)]])

(***************************************************************************)
(* C34: Push then Checkout through the gateway                             *)
(***************************************************************************)

\* the commits pushed with name n into the repository the gateway knows as
\* (teamName, repoName): a successful Push stored the name row with its commit
PushedAs(teamName, repoName, n) ==
    {c \in DOMAIN commits :
        /\ commits[c].parents # <<>>
        /\ NameRow(ResolveTeamID(teamName), getRootCommit(ResolveTeamID(teamName), repoName), c, n)
               \in names}

C35_RepoBindingStable ==
    [][ \A k \in DOMAIN repoRootCommits :
          k \in DOMAIN repoRootCommits' /\ repoRootCommits'[k] = repoRootCommits[k] ]_vars

(***************************************************************************)
(* C36: the PR id the gateway sends to the allocation service              *)
(***************************************************************************)

\* the PR ids CreatePR synthesized for the PR the gateway knows as (teamName, prName)
SynthesizedFor(teamName, prName) ==
    {id \in PRIDs : /\ IDKey(id) \in DOMAIN prMetadata
                    /\ prMetadata[IDKey(id)] = prMetadata[MetaKey(teamName, prName)]}

\* C36: ApprovePR and RejectPR of the gateway for (team_name, pr_name) always
\* send to the allocation service the pr_id that CreatePR synthesized for that
\* PR, for every team name and PR name, names that start with "pr-" included.
C36_SendsSynthesizedID ==
    [][ (gresp'.op \in {"ApprovePR", "RejectPR"} /\ gresp'.calls # <<>>) =>
          \A u \in UserIDs, t \in PrScopeTeams, n \in PRNames :
              \A prID \in FoundPRIDs(t, n) :
                  ( \/ /\ gresp'.op = "ApprovePR"
                        /\ gresp' = GReply("ApprovePR", ServiceApprove(u, t, n, prID, FALSE))
                    \/ /\ gresp'.op = "RejectPR"
                        /\ gresp' = GReply("RejectPR", ServiceReject(u, t, n, prID)) )
                  => prID \in SynthesizedFor(t, n) ]_vars

(***************************************************************************)
(* C37: the parents of a merge commit                                      *)
(***************************************************************************)

\* C37: every merge commit has two distinct parents: Merge(a, b) with a = b
\* creates no commit.
C37_MergeParentsDistinct ==
    \A c \in DOMAIN commits :
        Len(commits[c].parents) = 2 => commits[c].parents[1] # commits[c].parents[2]

(***************************************************************************)
(* C38: what a failed InitRepository or CreatePR of the gateway leaves     *)
(***************************************************************************)

\* C38: an InitRepository or a CreatePR of the gateway that answers with an
\* error leaves the repo-root map and the PR-metadata map as they were, and a
\* CreatePR that fails while resolving the team, the repository, the source or
\* the target name (no call to the allocation service made) creates no PR.
C38_FailedRequestsKeepMaps ==
    [][ /\ (gresp'.op \in {"InitRepository", "CreatePR"} /\ gresp'.err # "OK")
            => UNCHANGED <<repoRootCommits, metas, prMetadata>>
        /\ (gresp'.op = "CreatePR" /\ gresp'.err # "OK" /\ gresp'.calls = <<>>)
            => prs' = prs ]_vars

\* a CreatePR refused by the allocation service while the gateway holds the
\* metadata of a PR, in a repository whose root is bound
C38_Witness ==
    /\ gresp.op = "CreatePR"
    /\ gresp.err = "failed to create PR"
    /\ gresp.calls = <<Call("CreatePR", "PR_EXISTS")>>
    /\ DOMAIN repoRootCommits # {}
    /\ DOMAIN prMetadata # {}
    /\ Len(metas) = 1

(***************************************************************************)
(* C39: what a user outside the team can observe                           *)
(***************************************************************************)

\* the answers approve, reject and get-code can give to a request in this state
\* (one for each PR id the lookup loop of approve and reject can find)
AnswersTo(username, teamName, prName) ==
    [approve |-> {GReply("ApprovePR", ServiceApprove(username, teamName, prName, prID, FALSE)) :
                     prID \in FoundPRIDs(teamName, prName)},
     reject  |-> {GReply("RejectPR", ServiceReject(username, teamName, prName, prID)) :
                     prID \in FoundPRIDs(teamName, prName)},
     getCode |-> ServiceGetPRCode(username, teamName, prName)]

\* C39: for a user who fails the access check for team T, the gateway's answer to
\* approve, reject and get-code on (T, pr_name) is the same whether or not a PR
\* named pr_name exists in T: the step that creates the PR changes none of the
\* answers such a user gets.
C39_PRExistenceHidden ==
    [][ \A t \in OpsReqTeams, n \in PRNames :
          (MetaKey(t, n) \notin DOMAIN prMetadata /\ MetaKey(t, n) \in DOMAIN prMetadata')
              => \A u \in OpsUsers :
                    (verifyUserAccess(u, t) # "OK" /\ users' = users)
                        => AnswersTo(u, t, n)' = AnswersTo(u, t, n) ]_vars

====
